---- MODULE Spec2Model ----
(***************************************************************************)
(* Knowledge store and linking engine of smart-codebase.                   *)
(*                                                                         *)
(* Files are modelled by their path (a sequence of path segments) and      *)
(* their text by a sequence of tokens: a JSON object, a newline, white     *)
(* space or junk.  The fact store (appendFact), the loader                 *)
(* (loadKnowledge), the index builder (buildGraph) and the linker          *)
(* (linkFact) are translated from the TypeScript sources.                  *)
(***************************************************************************)
EXTENDS Integers, Sequences, FiniteSets, TLC

VARIABLES
    fs,         \* facts.jsonl files: path -> [exists, content]
    graphFile,  \* .codebase-memory/graph.json: [exists, nodes, edges]
    linked,     \* the newFact object of the latest linkFact call, as the call left it
    appended,   \* per directory, the facts of the appendFact calls that have returned
    locks,      \* per directory, whether .knowledge/.lock exists
    wr,         \* the appendFact calls in progress: caller -> position and locals
    lk,         \* the linkFact calls in progress: caller -> position and locals
    indexFile,  \* .codebase-memory/search-index.json: [exists, keywords]
    out,        \* the latest call of a loader: its arguments and what it returned
    sessionDebounceTimers,        \* session -> the timer its latest session.idle stored
    sessionModifiedFiles,         \* session -> the files its tools modified, or absent
    sessionExtractionInProgress,  \* session -> whether the in-progress flag is set
    timers,        \* the runtime's setTimeout timers, in the order they were created
    ex,            \* the extractKnowledge invocations, in the order they started
    sessionCaches, \* the context injector's Map: session -> its Set of file paths
    reads          \* the Read calls the context injector's hook was run for

\* The state of the two hooks of the plugin.
hookVars ==
    <<sessionDebounceTimers, sessionModifiedFiles, sessionExtractionInProgress, timers, ex,
      sessionCaches, reads>>

vars == <<fs, graphFile, linked, appended, locks, wr, lk, indexFile, out, hookVars>>

(***************************************************************************)
(* Bounds of the model.                                                    *)
(***************************************************************************)
MaxLines == 3       \* lines stored over all logs

(***************************************************************************)
(* Program constants.                                                      *)
(***************************************************************************)
MAX_RELATED_FACTS == 5

(***************************************************************************)
(* Sequence helpers (Array.prototype.includes / indexOf / slice).          *)
(***************************************************************************)
Range(s) == {s[i] : i \in 1..Len(s)}

Includes(s, x) == \E i \in 1..Len(s) : s[i] = x

Min(S) == CHOOSE x \in S : \A y \in S : x <= y

Slice(s, n) == SubSeq(s, 1, IF Len(s) < n THEN Len(s) ELSE n)

RECURSIVE Flatten(_)
Flatten(ss) == IF ss = <<>> THEN <<>> ELSE Head(ss) \o Flatten(Tail(ss))

(***************************************************************************)
(* Paths.  join(directory, '.knowledge', 'facts.jsonl') and dirname.       *)
(***************************************************************************)
KNOWLEDGE == ".knowledge"
FACTS == "facts.jsonl"

Join(dir, segs) == dir \o segs

Dirname(path) == IF Len(path) <= 1 THEN <<>> ELSE SubSeq(path, 1, Len(path) - 1)

FactsFileOf(directory) == Join(directory, <<KNOWLEDGE, FACTS>>)

IsDotSegment(seg) == seg \in {KNOWLEDGE, ".codebase-memory"}

\* The directories callers pass to appendFact and loadKnowledge.
Dirs == { <<"a">>, <<"a", KNOWLEDGE>> }

LogFiles == { FactsFileOf(d) : d \in Dirs }


(***************************************************************************)
(* findFiles('**/.knowledge/facts.jsonl', {cwd: projectRoot}): the path    *)
(* ends in .knowledge/facts.jsonl and the part matched by ** has no        *)
(* segment that starts with a dot (fast-glob's default dot: false).        *)
(***************************************************************************)
GlobMatches(path) ==
    /\ Len(path) >= 2
    /\ path[Len(path) - 1] = KNOWLEDGE
    /\ path[Len(path)] = FACTS
    /\ \A i \in 1..(Len(path) - 2) : ~IsDotSegment(path[i])

\* The sequences that list every element of S once.
Orderings(S) ==
    { o \in [1..Cardinality(S) -> S] : \A x \in S : \E i \in DOMAIN o : o[i] = x }

\* fast-glob promises no order of its entries: every order is a possible result.
FindAllKnowledgeFiles(files) ==
    Orderings({ p \in DOMAIN files : files[p].exists /\ GlobMatches(p) })

(***************************************************************************)
(* Facts.  A citation is the sequence of its pieces, "file", ":", "range". *)
(***************************************************************************)
Ids == {"A", "B", "C"}

\* Facts for logs with more candidates than the cap: the D share two keywords
\* with A, the M share none.
DIds == <<"D1", "D2", "D3", "D4", "D5", "D6", "D7", "D8">>

MIds == <<"M1", "M2", "M3", "M4", "M5", "M6", "M7", "M8">>

Catalog(id) ==
    CASE id = "A" -> [subject   |-> "Flow", fact |-> "pay",
                      keywords  |-> <<"order", "status", "update">>,
                      citations |-> << <<"src/x.ts", ":", "10-20">> >>]
      [] id = "B" -> [subject   |-> "Pack", fact |-> "Ship it",
                      keywords  |-> <<"order", "status", "ship">>,
                      citations |-> << <<"src/y.ts">> >>]
      [] id = "C" -> [subject   |-> "Log", fact |-> "flow",
                      keywords  |-> <<"ship", "ship">>,
                      citations |-> << <<"src/x.ts", ":", "5-8">> >>]
      [] id \in Range(DIds) -> [subject |-> "", fact |-> "",
                                keywords |-> <<"status", "order">>, citations |-> <<>>]
      [] id \in Range(MIds) -> [subject |-> "", fact |-> "",
                                keywords |-> <<"ship">>, citations |-> <<>>]

MkFact(id, related) ==
    [id |-> id, subject |-> Catalog(id).subject, fact |-> Catalog(id).fact,
     keywords |-> Catalog(id).keywords,
     citations |-> Catalog(id).citations, related_facts |-> related]

Repeat(x, n) == [i \in 1..n |-> x]

\* The related_facts a caller's fact object may carry into a call.
RelatedInputs(id) ==
    CASE id = "B" -> {<<>>, Repeat("A", 4), Repeat("A", 5)}
      [] OTHER    -> {<<>>}

FactInputs == UNION { { MkFact(id, r) : r \in RelatedInputs(id) } : id \in Ids }

NoFact ==
    [id |-> "", subject |-> "", fact |-> "", keywords |-> <<>>, citations |-> <<>>,
     related_facts |-> <<>>]

(***************************************************************************)
(* Text of a log: tokens.  JSON.stringify(fact) is one token, '\n' another.*)
(***************************************************************************)
NL == [t |-> "nl", v |-> NoFact]

JSONStringify(fact) == [t |-> "json", v |-> fact]

\* String.prototype.trim on a line: white-space tokens at both ends go.
RECURSIVE TrimLeft(_)
TrimLeft(line) ==
    IF line # <<>> /\ Head(line).t \in {"ws", "nl"} THEN TrimLeft(Tail(line)) ELSE line

RECURSIVE TrimRight(_)
TrimRight(line) ==
    IF line # <<>> /\ line[Len(line)].t \in {"ws", "nl"}
    THEN TrimRight(SubSeq(line, 1, Len(line) - 1)) ELSE line

Trim(line) == TrimRight(TrimLeft(line))

\* content.split('\n')
RECURSIVE SplitLines(_, _)
SplitLines(content, cur) ==
    IF content = <<>> THEN <<cur>>
    ELSE IF Head(content).t = "nl" THEN <<cur>> \o SplitLines(Tail(content), <<>>)
    ELSE SplitLines(Tail(content), Append(cur, Head(content)))

\* JSON.parse(line) succeeds on exactly one JSON object.
ParseOk(line) == Len(line) = 1 /\ line[1].t = "json"

EmptyFile == [exists |-> FALSE, content |-> <<>>]

(***************************************************************************)
(* loadKnowledge(directory): the facts of directory/.knowledge/facts.jsonl.*)
(* A path that is no log file of the model does not exist.                 *)
(***************************************************************************)
FileAt(files, path) == IF path \in DOMAIN files THEN files[path] ELSE EmptyFile

\* A loop that ends at the first line JSON.parse rejects.
RECURSIVE ParseLinesStopping(_)
ParseLinesStopping(lines) ==
    IF lines = <<>> THEN <<>>
    ELSE LET line == Trim(Head(lines)) IN
         IF line = <<>> THEN ParseLinesStopping(Tail(lines))
         ELSE IF ParseOk(line) THEN <<line[1].v>> \o ParseLinesStopping(Tail(lines))
         ELSE <<>>

RECURSIVE ParseLines(_)
ParseLines(lines) ==
    IF lines = <<>> THEN <<>>
    ELSE LET line == Trim(Head(lines)) IN
         IF line = <<>> THEN ParseLines(Tail(lines))
         ELSE IF ParseOk(line) THEN <<line[1].v>> \o ParseLines(Tail(lines))
         ELSE ParseLines(Tail(lines))

\* What a call gives back: the value it returns, or raised when it throws.
Returns(facts) == [raised |-> FALSE, facts |-> facts]

\* A handler that lets the read error through.
ReadFailureRethrown == [raised |-> TRUE, facts |-> <<>>]

\* catch (error) { console.error(...); return []; }
ReadFailure == Returns(<<>>)

\* readOk: readTextFile(factsFile) resolves; it rejects when the file system
\* refuses the read.
LoadOutcome(files, directory, readOk) ==
    LET file == FileAt(files, FactsFileOf(directory)) IN
    IF ~file.exists THEN Returns(<<>>)
    ELSE IF ~readOk THEN ReadFailure
    ELSE IF Trim(file.content) = <<>> THEN Returns(<<>>)
    ELSE Returns(ParseLines(SplitLines(file.content, <<>>)))

LoadKnowledge(files, directory) == LoadOutcome(files, directory, TRUE).facts

(***************************************************************************)
(* appendFact(directory, fact), its critical section: the log's text with  *)
(* the fact's line added.                                                  *)
(***************************************************************************)
\* A writer that puts the new line first.
AppendLineFirst(existingContent, fact) == <<JSONStringify(fact), NL>> \o existingContent

AppendLine(existingContent, fact) == existingContent \o <<JSONStringify(fact), NL>>

ReadOrEmpty(files, path) == IF files[path].exists THEN files[path].content ELSE <<>>

WriteTextFile(files, path, content) ==
    [files EXCEPT ![path] = [exists |-> TRUE, content |-> content]]

(***************************************************************************)
(* linkFact: relationship detection.                                       *)
(***************************************************************************)
\* c.split(':')[0]
FilePortion(citation) ==
    LET colons == { i \in 1..Len(citation) : citation[i] = ":" } IN
    IF colons = {} THEN citation ELSE SubSeq(citation, 1, Min(colons) - 1)

MapFilePortion(citations) == [i \in 1..Len(citations) |-> FilePortion(citations[i])]

\* newFact.keywords.filter(k => existingFact.keywords.includes(k))
CommonKeywords(newFact, existingFact) ==
    SelectSeq(newFact.keywords, LAMBDA k : Includes(existingFact.keywords, k))

\* newFiles.filter(f => existingFiles.includes(f))
CommonFiles(newFact, existingFact) ==
    SelectSeq(MapFilePortion(newFact.citations),
              LAMBDA f : Includes(MapFilePortion(existingFact.citations), f))

RuleMatches(newFact, existingFact) ==
    \/ Len(CommonKeywords(newFact, existingFact)) >= 2
    \/ Len(CommonFiles(newFact, existingFact)) > 0

\* A check of the new fact's side only.
AtCapNewOnly(newFact, existingFact) == Len(newFact.related_facts) >= MAX_RELATED_FACTS

AtCap(newFact, existingFact) ==
    \/ Len(newFact.related_facts) >= MAX_RELATED_FACTS
    \/ Len(existingFact.related_facts) >= MAX_RELATED_FACTS

Edge(from, to) == [from |-> from, to |-> to, relation |-> "related"]

\* A linker that stages the edge new -> existing only.
PairEdgesOneWay(newFact, existingFact) == << Edge(newFact.id, existingFact.id) >>

PairEdges(newFact, existingFact) ==
    << Edge(newFact.id, existingFact.id), Edge(existingFact.id, newFact.id) >>

\* A loop that goes on after relatedFactIds has reached MAX_RELATED_FACTS.
RECURSIVE DetectFromNoBreak(_, _, _, _, _)
DetectFromNoBreak(newFact, allFacts, i, relatedFactIds, newEdges) ==
    IF i > Len(allFacts)
    THEN [relatedFactIds |-> relatedFactIds, newEdges |-> newEdges]
    ELSE LET existingFact == allFacts[i] IN
         IF existingFact.id = newFact.id
         THEN DetectFromNoBreak(newFact, allFacts, i + 1, relatedFactIds, newEdges)
         ELSE IF AtCap(newFact, existingFact)
         THEN DetectFromNoBreak(newFact, allFacts, i + 1, relatedFactIds, newEdges)
         ELSE IF RuleMatches(newFact, existingFact)
         THEN DetectFromNoBreak(newFact, allFacts, i + 1,
                                Append(relatedFactIds, existingFact.id),
                                newEdges \o PairEdges(newFact, existingFact))
         ELSE DetectFromNoBreak(newFact, allFacts, i + 1, relatedFactIds, newEdges)

\* A loop that does not skip the fact whose id is newFact's own.
RECURSIVE DetectFromWithSelf(_, _, _, _, _)
DetectFromWithSelf(newFact, allFacts, i, relatedFactIds, newEdges) ==
    IF i > Len(allFacts)
    THEN [relatedFactIds |-> relatedFactIds, newEdges |-> newEdges]
    ELSE LET existingFact == allFacts[i] IN
         IF AtCap(newFact, existingFact)
         THEN DetectFromWithSelf(newFact, allFacts, i + 1, relatedFactIds, newEdges)
         ELSE IF RuleMatches(newFact, existingFact)
         THEN LET ids == Append(relatedFactIds, existingFact.id)
                  edges == newEdges \o PairEdges(newFact, existingFact)
              IN IF Len(ids) >= MAX_RELATED_FACTS
                 THEN [relatedFactIds |-> ids, newEdges |-> edges]
                 ELSE DetectFromWithSelf(newFact, allFacts, i + 1, ids, edges)
         ELSE DetectFromWithSelf(newFact, allFacts, i + 1, relatedFactIds, newEdges)

\* The loop over allFacts, from index i on.
RECURSIVE DetectFrom(_, _, _, _, _)
DetectFrom(newFact, allFacts, i, relatedFactIds, newEdges) ==
    IF i > Len(allFacts)
    THEN [relatedFactIds |-> relatedFactIds, newEdges |-> newEdges]
    ELSE LET existingFact == allFacts[i] IN
         IF existingFact.id = newFact.id
         THEN DetectFrom(newFact, allFacts, i + 1, relatedFactIds, newEdges)
         ELSE IF AtCap(newFact, existingFact)
         THEN DetectFrom(newFact, allFacts, i + 1, relatedFactIds, newEdges)
         ELSE IF RuleMatches(newFact, existingFact)
         THEN LET ids == Append(relatedFactIds, existingFact.id)
                  edges == newEdges \o PairEdges(newFact, existingFact)
              IN IF Len(ids) >= MAX_RELATED_FACTS
                 THEN [relatedFactIds |-> ids, newEdges |-> edges]
                 ELSE DetectFrom(newFact, allFacts, i + 1, ids, edges)
         ELSE DetectFrom(newFact, allFacts, i + 1, relatedFactIds, newEdges)

Detect(newFact, allFacts) == DetectFrom(newFact, allFacts, 1, <<>>, <<>>)

\* [...(newFact.related_facts || []), ...relatedFactIds].slice(0, MAX_RELATED_FACTS)
MergeRelated(related_facts, relatedFactIds) ==
    Slice(related_facts \o relatedFactIds, MAX_RELATED_FACTS)

(***************************************************************************)
(* The graph file.                                                         *)
(***************************************************************************)
EmptyGraph == [nodes |-> <<>>, edges |-> <<>>]

\* parses: JSON.parse accepts what the file holds.
NoGraphFile == [exists |-> FALSE, parses |-> TRUE, nodes |-> <<>>, edges |-> <<>>]

\* search-index.json is absent; no loader has been called.
NoIndexFile == [exists |-> FALSE, keywords |-> <<>>]

NoCall == [op |-> "none"]

\* The sessions of the host and the one file their tools read and modify.
Sessions == {"s1", "s2"}

\* No timer: what Map.get returns for a session without entry.
NoTimer == 0

\* A Map entry that is absent.
Absent == [present |-> FALSE, files |-> {}]

\* The plugin has just been loaded: the Maps of both hooks are empty, no timer is
\* set and no hook is running.
NoHooks ==
    /\ sessionDebounceTimers = [s \in Sessions |-> NoTimer]
    /\ sessionModifiedFiles = [s \in Sessions |-> Absent]
    /\ sessionExtractionInProgress = [s \in Sessions |-> FALSE]
    /\ timers = <<>>
    /\ ex = <<>>
    /\ sessionCaches = [s \in Sessions |-> [present |-> FALSE, object |-> 0, files |-> {}]]
    /\ reads = <<>>

\* The graph read from graph.json, the empty graph when the file is absent.
\* A reader that takes the nodes and edges it finds in a file JSON.parse rejects.
ReadGraphTrusting(file) ==
    IF file.exists THEN [nodes |-> file.nodes, edges |-> file.edges] ELSE EmptyGraph

\* catch (error): graph stays { nodes: [], edges: [] }
ReadGraph(file) ==
    IF file.exists /\ file.parses THEN [nodes |-> file.nodes, edges |-> file.edges]
    ELSE EmptyGraph

WriteGraph(graph) ==
    [exists |-> TRUE, parses |-> TRUE, nodes |-> graph.nodes, edges |-> graph.edges]

\* A push with no includes check.
AddNodeAlways(nodes, id) == Append(nodes, id)

\* A linker that adds no node.
AddNodeNever(nodes, id) == nodes

\* if (!graph.nodes.includes(newFact.id)) graph.nodes.push(newFact.id)
AddNode(nodes, id) == IF Includes(nodes, id) THEN nodes ELSE Append(nodes, id)

\* A merge with no check for an edge already in the graph.
AddEdgesNoDedup(edges, newEdges) == edges \o newEdges

\* Each staged edge is pushed unless the graph has it already.
RECURSIVE AddEdges(_, _)
AddEdges(edges, newEdges) ==
    IF newEdges = <<>> THEN edges
    ELSE AddEdges(IF Includes(edges, Head(newEdges)) THEN edges
                  ELSE Append(edges, Head(newEdges)),
                  Tail(newEdges))

\* The facts of every discovered log, loaded from dirname(file).
AllFacts(files, knowledgeFiles) ==
    Flatten([i \in 1..Len(knowledgeFiles) |->
                LoadKnowledge(files, Dirname(knowledgeFiles[i]))])

(***************************************************************************)
(* updateRelatedFactsFields: the write-back to the related facts' logs.    *)
(***************************************************************************)
\* The ids of a log's facts that are among relatedFactIds.
RelatedIdsIn(files, file, relatedFactIds) ==
    { f.id : f \in { g \in Range(LoadKnowledge(files, Dirname(file))) :
                       Includes(relatedFactIds, g.id) } }

\* factIdsByFile: the discovered files with a related fact, in discovery order,
\* each with the ids of its related facts.
FactIdsByFile(files, relatedFactIds, knowledgeFiles) ==
    LET with == SelectSeq(knowledgeFiles,
                          LAMBDA file : RelatedIdsIn(files, file, relatedFactIds) # {})
    IN [i \in 1..Len(with) |->
           [file |-> with[i], factIds |-> RelatedIdsIn(files, with[i], relatedFactIds)]]

\* A fact of the log gets newFact.id pushed.
Pushes(fact, factIds, newId) ==
    fact.id \in factIds /\ ~Includes(fact.related_facts, newId)

\* An update that pushes and never cuts the list.
UpdateFactNoSlice(fact, factIds, newId) ==
    IF Pushes(fact, factIds, newId)
    THEN [fact EXCEPT !.related_facts = Append(fact.related_facts, newId)]
    ELSE fact

\* One fact of a log under update.
UpdateFact(fact, factIds, newId) ==
    IF Pushes(fact, factIds, newId)
    THEN [fact EXCEPT !.related_facts = Slice(Append(fact.related_facts, newId),
                                              MAX_RELATED_FACTS)]
    ELSE fact

\* facts.map(f => JSON.stringify(f)).join('\n') + '\n'
SerializeFacts(facts) ==
    Flatten([i \in 1..Len(facts) |->
                IF i < Len(facts) THEN <<JSONStringify(facts[i]), NL>>
                ELSE <<JSONStringify(facts[i])>>]) \o <<NL>>

\* The facts of a log after the update loop, and whether any was modified.
UpdatedFacts(facts, factIds, newId) ==
    [i \in 1..Len(facts) |-> UpdateFact(facts[i], factIds, newId)]

Modified(facts, factIds, newId) ==
    \E i \in 1..Len(facts) : Pushes(facts[i], factIds, newId)

\* One iteration of the loop over factIdsByFile: the files after it.
UpdateFile(files, entry, newId) ==
    LET facts == LoadKnowledge(files, Dirname(entry.file)) IN
    IF Modified(facts, entry.factIds, newId)
    THEN WriteTextFile(files, entry.file,
                       SerializeFacts(UpdatedFacts(facts, entry.factIds, newId)))
    ELSE files

RECURSIVE UpdateFiles(_, _, _)
UpdateFiles(files, entries, newId) ==
    IF entries = <<>> THEN files
    ELSE UpdateFiles(UpdateFile(files, Head(entries), newId), Tail(entries), newId)

UpdateRelatedFactsFields(files, newFact, relatedFactIds, knowledgeFiles) ==
    UpdateFiles(files, FactIdsByFile(files, relatedFactIds, knowledgeFiles), newFact.id)

(***************************************************************************)
(* buildGraph: the nodes of the persisted graph and every discovered id.   *)
(***************************************************************************)
\* Array.from(new Set(existing).add(id)...): first occurrences, in order.
RECURSIVE AddAll(_, _)
AddAll(nodes, ids) ==
    IF ids = <<>> THEN nodes ELSE AddAll(AddNode(nodes, Head(ids)), Tail(ids))

NodeSetArray(existingNodes, allFacts) ==
    AddAll(AddAll(<<>>, existingNodes), [i \in 1..Len(allFacts) |-> allFacts[i].id])

BuiltGraph(file, files, knowledgeFiles) ==
    [nodes |-> NodeSetArray(ReadGraph(file).nodes, AllFacts(files, knowledgeFiles)),
     edges |-> ReadGraph(file).edges]

(***************************************************************************)
(* The calls, each run from start to end with no other call in between.    *)
(***************************************************************************)
\* The number of lines of a log's text.
RECURSIVE CountLines(_)
CountLines(content) ==
    IF content = <<>> THEN 0
    ELSE (IF Head(content).t = "nl" THEN 1 ELSE 0) + CountLines(Tail(content))

RECURSIVE SumLines(_)
SumLines(paths) ==
    IF paths = {} THEN 0
    ELSE LET p == CHOOSE q \in paths : TRUE
         IN CountLines(fs[p].content) + SumLines(paths \ {p})

TotalLines == SumLines(LogFiles)

\* The fact objects callers pass in: any of them to the nested directory, the
\* freshly extracted ones (no related_facts yet) to the plain one.
AppendInputs(directory) ==
    IF directory = <<"a">> THEN { MkFact(id, <<>>) : id \in Ids } ELSE FactInputs

LinkInputs == FactInputs

\* The project after appendFact(<<"a">>, C) has run: one discovered log.
SeedFiles ==
    WriteTextFile([p \in LogFiles |-> EmptyFile], FactsFileOf(<<"a">>),
                  AppendLine(<<>>, MkFact("C", <<>>)))

Init ==
    /\ fs = SeedFiles
    /\ graphFile = NoGraphFile
    /\ linked = NoFact
    /\ appended = [d \in Dirs |-> <<>>]
    /\ locks = [d \in Dirs |-> FALSE]
    /\ wr = <<>>
    /\ lk = <<>>
    /\ indexFile = NoIndexFile
    /\ NoHooks
    /\ out = NoCall

\* A call that runs alone finds no lock, takes it, writes and removes it.
AppendFact(directory, fact) ==
    /\ TotalLines < MaxLines
    /\ ~locks[directory]
    /\ fs' = WriteTextFile(fs, FactsFileOf(directory),
                           AppendLine(ReadOrEmpty(fs, FactsFileOf(directory)), fact))
    /\ UNCHANGED <<graphFile, linked>>

LinkFact(newFact, knowledgeFiles) ==
    LET graph    == ReadGraph(graphFile)
        nodes    == AddNode(graph.nodes, newFact.id)
        allFacts == AllFacts(fs, knowledgeFiles)
        found    == Detect(newFact, allFacts)
    IN /\ linked' = [newFact EXCEPT !.related_facts =
                         MergeRelated(newFact.related_facts, found.relatedFactIds)]
       /\ graphFile' = WriteGraph([nodes |-> nodes,
                                   edges |-> AddEdges(graph.edges, found.newEdges)])
       /\ fs' = UpdateRelatedFactsFields(fs, newFact, found.relatedFactIds, knowledgeFiles)

BuildGraph(knowledgeFiles) ==
    /\ graphFile' = WriteGraph(BuiltGraph(graphFile, fs, knowledgeFiles))
    /\ UNCHANGED <<fs, linked>>

\* What a call that runs from start to end leaves as it found it.
Alone == UNCHANGED <<appended, locks, wr, lk, indexFile, out, hookVars>>

Next ==
    \/ \E d \in Dirs : \E f \in AppendInputs(d) : AppendFact(d, f) /\ Alone
    \/ \E f \in LinkInputs, k \in FindAllKnowledgeFiles(fs) : LinkFact(f, k) /\ Alone
    \/ \E k \in FindAllKnowledgeFiles(fs) : BuildGraph(k) /\ Alone

Spec == Init /\ [][Next]_vars

(***************************************************************************)
(* The store alone: appendFact calls, one after another, on empty          *)
(* directories; appended records what each call was given.                 *)
(***************************************************************************)
NoFiles == [p \in LogFiles |-> EmptyFile]

InitStore ==
    /\ fs = NoFiles
    /\ graphFile = NoGraphFile
    /\ linked = NoFact
    /\ appended = [d \in Dirs |-> <<>>]
    /\ locks = [d \in Dirs |-> FALSE]
    /\ wr = <<>>
    /\ lk = <<>>
    /\ indexFile = NoIndexFile
    /\ NoHooks
    /\ out = NoCall

StoreAppend(directory, fact) ==
    /\ AppendFact(directory, fact)
    /\ appended' = [appended EXCEPT ![directory] = Append(@, fact)]
    /\ UNCHANGED <<locks, wr, lk, indexFile, out, hookVars>>

NextStore == \E d \in Dirs, f \in FactInputs : StoreAppend(d, f)

SpecStore == InitStore /\ [][NextStore]_vars

(***************************************************************************)
(* appendFact, await by await.  A caller's record holds its position and   *)
(* its locals.                                                             *)
(***************************************************************************)
MaxWriters == 2     \* concurrent appendFact calls on one directory

\* expired: Date.now() - startTime > timeoutMs by now; threw: the critical section
\* raised an error that the call rethrows after the finally block.
IdleWriter ==
    [pc |-> "idle", directory |-> <<>>, fact |-> NoFact, existingContent |-> <<>>,
     expired |-> FALSE, threw |-> FALSE]

\* The call starts; mkdir(knowledgeDir, {recursive: true}) creates what is missing.
AppendCall(w, directory, fact) ==
    /\ wr[w].pc = "idle"
    /\ wr' = [wr EXCEPT ![w] = [IdleWriter EXCEPT !.pc = "lock_check",
                                                   !.directory = directory,
                                                   !.fact = fact]]
    /\ UNCHANGED <<fs, graphFile, linked, appended, locks, lk, indexFile, out, hookVars>>

\* acquireLock: await fileExists(lockFile) answers no.
LockFree(w) ==
    /\ wr[w].pc = "lock_check"
    /\ ~locks[wr[w].directory]
    /\ wr' = [wr EXCEPT ![w].pc = "lock_write", ![w].expired = FALSE]
    /\ UNCHANGED <<fs, graphFile, linked, appended, locks, lk, indexFile, out, hookVars>>

\* While the call waits for the lock, timeoutMs (5000 ms) go by.
TimeoutPasses(w) ==
    /\ wr[w].pc \in {"lock_check", "sleep"}
    /\ ~wr[w].expired
    /\ wr' = [wr EXCEPT ![w].expired = TRUE]
    /\ UNCHANGED <<fs, graphFile, linked, appended, locks, lk, indexFile, out, hookVars>>

\* A waiter that takes the lock over once the timeout has passed.
LockBusyTakesOver(w) ==
    /\ wr[w].pc = "lock_check"
    /\ locks[wr[w].directory]
    /\ wr' = [wr EXCEPT ![w].pc = IF wr[w].expired THEN "lock_write" ELSE "sleep"]
    /\ UNCHANGED <<fs, graphFile, linked, appended, locks, lk, indexFile, out, hookVars>>

\* A waiter that never looks at the clock: it sleeps whenever the lock file exists.
LockBusySleepsOn(w) ==
    /\ wr[w].pc = "lock_check"
    /\ locks[wr[w].directory]
    /\ wr' = [wr EXCEPT ![w].pc = "sleep"]
    /\ UNCHANGED <<fs, graphFile, linked, appended, locks, lk, indexFile, out, hookVars>>

\* acquireLock: the lock file exists; the call throws once the timeout has passed
\* and sleeps otherwise.  The throw is outside appendFact's try block.
LockBusy(w) ==
    /\ wr[w].pc = "lock_check"
    /\ locks[wr[w].directory]
    /\ wr' = [wr EXCEPT ![w].pc = IF wr[w].expired THEN "failed" ELSE "sleep",
                        ![w].expired = FALSE]
    /\ UNCHANGED <<fs, graphFile, linked, appended, locks, lk, indexFile, out, hookVars>>

\* await sleep(50) is over: the loop checks again.
Wake(w) ==
    /\ wr[w].pc = "sleep"
    /\ wr' = [wr EXCEPT ![w].pc = "lock_check"]
    /\ UNCHANGED <<fs, graphFile, linked, appended, locks, lk, indexFile, out, hookVars>>

\* acquireLock: await writeTextFile(lockFile, pid), whatever the file is by now.
LockWrite(w) ==
    /\ wr[w].pc = "lock_write"
    /\ locks' = [locks EXCEPT ![wr[w].directory] = TRUE]
    /\ wr' = [wr EXCEPT ![w].pc = "exists_check"]
    /\ UNCHANGED <<fs, graphFile, linked, appended, lk, indexFile, out, hookVars>>

\* await fileExists(factsFile): '' when the log is absent.
ExistsCheck(w) ==
    /\ wr[w].pc = "exists_check"
    /\ wr' = [wr EXCEPT ![w].pc =
                 IF fs[FactsFileOf(wr[w].directory)].exists THEN "read" ELSE "write"]
    /\ UNCHANGED <<fs, graphFile, linked, appended, locks, lk, indexFile, out, hookVars>>

\* await readTextFile(factsFile)
ReadLog(w) ==
    /\ wr[w].pc = "read"
    /\ wr' = [wr EXCEPT ![w].pc = "write",
                        ![w].existingContent = fs[FactsFileOf(wr[w].directory)].content]
    /\ UNCHANGED <<fs, graphFile, linked, appended, locks, lk, indexFile, out, hookVars>>

\* await writeTextFile(factsFile, existingContent + line)
WriteLog(w) ==
    /\ wr[w].pc = "write"
    /\ fs' = WriteTextFile(fs, FactsFileOf(wr[w].directory),
                           AppendLine(wr[w].existingContent, wr[w].fact))
    /\ wr' = [wr EXCEPT ![w].pc = "unlock_check", ![w].existingContent = <<>>]
    /\ UNCHANGED <<graphFile, linked, appended, locks, lk, indexFile, out, hookVars>>

\* A failing read or write that ends the call at once, with no finally block.
IoFailsNoRelease(w) ==
    /\ wr[w].pc \in {"read", "write"}
    /\ wr' = [wr EXCEPT ![w].pc = "threw", ![w].existingContent = <<>>]
    /\ UNCHANGED <<fs, graphFile, linked, appended, locks, lk, indexFile, out, hookVars>>

\* readTextFile or writeTextFile rejects (the file system refuses): nothing is
\* written, and the finally block runs releaseLock before the error leaves.
IoFails(w) ==
    /\ wr[w].pc \in {"read", "write"}
    /\ wr' = [wr EXCEPT ![w].pc = "unlock_check", ![w].threw = TRUE,
                        ![w].existingContent = <<>>]
    /\ UNCHANGED <<fs, graphFile, linked, appended, locks, lk, indexFile, out, hookVars>>

\* The call is over: it returns, or rethrows the error of its critical section.
Finished(w) ==
    [wr EXCEPT ![w].pc = IF wr[w].threw THEN "threw" ELSE "done", ![w].threw = FALSE]

\* appended records the fact of a call that returns.
Returned(w) ==
    IF wr[w].threw THEN appended
    ELSE [appended EXCEPT ![wr[w].directory] = Append(@, wr[w].fact)]

\* releaseLock: await fileExists(lock.file); with no lock file the call is over.
UnlockCheck(w) ==
    /\ wr[w].pc = "unlock_check"
    /\ IF locks[wr[w].directory]
       THEN wr' = [wr EXCEPT ![w].pc = "unlock_rm"] /\ UNCHANGED appended
       ELSE wr' = Finished(w) /\ appended' = Returned(w)
    /\ UNCHANGED <<fs, graphFile, linked, locks, lk, indexFile, out, hookVars>>

\* releaseLock: await removeFile(lock.file), whoever wrote it.
UnlockRemove(w) ==
    /\ wr[w].pc = "unlock_rm"
    /\ locks' = [locks EXCEPT ![wr[w].directory] = FALSE]
    /\ wr' = Finished(w)
    /\ appended' = Returned(w)
    /\ UNCHANGED <<fs, graphFile, linked, lk, indexFile, out, hookVars>>

(***************************************************************************)
(* Concurrent appendFact calls with distinct fact ids on one empty         *)
(* directory.                                                              *)
(***************************************************************************)
IdSeq == <<"A", "B", "C">>

WriterFact(w) == MkFact(IdSeq[w], <<>>)

InitAppend ==
    /\ fs = NoFiles
    /\ graphFile = NoGraphFile
    /\ linked = NoFact
    /\ appended = [d \in Dirs |-> <<>>]
    /\ locks = [d \in Dirs |-> FALSE]
    /\ wr = [w \in 1..MaxWriters |-> IdleWriter]
    /\ lk = <<>>
    /\ indexFile = NoIndexFile
    /\ NoHooks
    /\ out = NoCall

NextAppend ==
    \/ \E w \in DOMAIN wr : AppendCall(w, <<"a">>, WriterFact(w))
    \/ \E w \in DOMAIN wr : LockFree(w)
    \/ \E w \in DOMAIN wr : TimeoutPasses(w)
    \/ \E w \in DOMAIN wr : LockBusy(w)
    \/ \E w \in DOMAIN wr : Wake(w)
    \/ \E w \in DOMAIN wr : LockWrite(w)
    \/ \E w \in DOMAIN wr : ExistsCheck(w)
    \/ \E w \in DOMAIN wr : ReadLog(w)
    \/ \E w \in DOMAIN wr : WriteLog(w)
    \/ \E w \in DOMAIN wr : IoFails(w)
    \/ \E w \in DOMAIN wr : UnlockCheck(w)
    \/ \E w \in DOMAIN wr : UnlockRemove(w)

SpecAppend == InitAppend /\ [][NextAppend]_vars

(***************************************************************************)
(* The lock wait under the event loop's scheduling.  The directory may     *)
(* start with a sentinel that a writer of another process left behind and  *)
(* nobody removes.  Every pending await of acquireLock (fileExists,        *)
(* writeTextFile, sleep(50)) settles, and the clock advances: while a call *)
(* waits, Date.now() - startTime comes to exceed timeoutMs.                *)
(***************************************************************************)
InitWait ==
    /\ fs = NoFiles
    /\ graphFile = NoGraphFile
    /\ linked = NoFact
    /\ appended = [d \in Dirs |-> <<>>]
    /\ locks \in [Dirs -> BOOLEAN]
    /\ wr = [w \in 1..MaxWriters |-> IdleWriter]
    /\ lk = <<>>
    /\ indexFile = NoIndexFile
    /\ NoHooks
    /\ out = NoCall

\* The awaits of acquireLock that writer w may have pending.
AcquireStep(w) == LockFree(w) \/ LockBusy(w) \/ Wake(w) \/ LockWrite(w)

SpecWait ==
    /\ InitWait
    /\ [][NextAppend]_vars
    /\ \A w \in 1..MaxWriters : WF_vars(AcquireStep(w)) /\ WF_vars(TimeoutPasses(w))

(***************************************************************************)
(* linkFact, await by await.  loadKnowledge and the read of graph.json are *)
(* one step each: no file is ever removed, so the existence check and the  *)
(* read that follows it see what one read sees.                            *)
(***************************************************************************)
IdleLinker ==
    [pc |-> "idle", newFact |-> NoFact, graph |-> EmptyGraph, knowledgeFiles |-> <<>>,
     i |-> 1, allFacts |-> <<>>, relatedFactIds |-> <<>>, entries |-> <<>>,
     lines |-> <<>>]

\* The caller moves on; a call that returns leaves its newFact object behind.
LinkerBecomes(l, r) ==
    /\ lk' = [lk EXCEPT ![l] = r]
    /\ linked' = IF r.pc = "done" THEN r.newFact ELSE linked

\* After a log is loaded: the next log, or with all logs loaded the detection
\* loop, the merge into newFact.related_facts and the staging of the edges.
Detected(r) ==
    IF r.i <= Len(r.knowledgeFiles) THEN [r EXCEPT !.pc = "load"]
    ELSE LET found == Detect(r.newFact, r.allFacts) IN
         [r EXCEPT !.pc = "write_graph",
                   !.relatedFactIds = found.relatedFactIds,
                   !.newFact.related_facts =
                       MergeRelated(r.newFact.related_facts, found.relatedFactIds),
                   !.graph.edges = AddEdges(r.graph.edges, found.newEdges),
                   !.allFacts = <<>>]

\* The loop over factIdsByFile: the next entry, or the return.
Reloading(r) ==
    IF r.i <= Len(r.entries) THEN [r EXCEPT !.pc = "reload"]
    ELSE [r EXCEPT !.pc = "done", !.i = 1, !.entries = <<>>, !.knowledgeFiles = <<>>,
                   !.relatedFactIds = <<>>, !.graph = EmptyGraph]

\* The loop that fills factIdsByFile: the next log, or the update loop.
Scanned(r) ==
    IF r.i <= Len(r.knowledgeFiles) THEN [r EXCEPT !.pc = "scan"]
    ELSE Reloading([r EXCEPT !.i = 1])

LinkCall(l, newFact) ==
    /\ lk[l].pc = "idle"
    /\ LinkerBecomes(l, [lk[l] EXCEPT !.pc = "read_graph", !.newFact = newFact])
    /\ UNCHANGED <<fs, graphFile, appended, locks, wr, indexFile, out, hookVars>>

\* The graph is read and newFact.id pushed to its nodes.
LinkReadGraph(l) ==
    /\ lk[l].pc = "read_graph"
    /\ LinkerBecomes(l, [lk[l] EXCEPT
           !.pc = "find",
           !.graph = [nodes |-> AddNode(ReadGraph(graphFile).nodes, lk[l].newFact.id),
                      edges |-> ReadGraph(graphFile).edges]])
    /\ UNCHANGED <<fs, graphFile, appended, locks, wr, indexFile, out, hookVars>>

\* await findAllKnowledgeFiles(projectRoot)
LinkFind(l, knowledgeFiles) ==
    /\ lk[l].pc = "find"
    /\ LinkerBecomes(l, Detected([lk[l] EXCEPT !.knowledgeFiles = knowledgeFiles,
                                                !.i = 1, !.allFacts = <<>>]))
    /\ UNCHANGED <<fs, graphFile, appended, locks, wr, indexFile, out, hookVars>>

\* await loadKnowledge(dirname(file)) of the first loop.
LinkLoad(l) ==
    /\ lk[l].pc = "load"
    /\ LinkerBecomes(l, Detected([lk[l] EXCEPT
           !.allFacts = @ \o LoadKnowledge(fs, Dirname(lk[l].knowledgeFiles[lk[l].i])),
           !.i = @ + 1]))
    /\ UNCHANGED <<fs, graphFile, appended, locks, wr, indexFile, out, hookVars>>

\* A linker that goes on to the write-back with graph.json not yet written.
LinkWriteGraphSkipped(l) ==
    /\ lk[l].pc = "write_graph"
    /\ LinkerBecomes(l, Scanned([lk[l] EXCEPT !.i = 1, !.entries = <<>>]))
    /\ UNCHANGED <<fs, graphFile, appended, locks, wr, indexFile, out, hookVars>>

\* A linker that reads graph.json again as it writes and adds what it staged
\* to what it finds.
LinkWriteGraphMerging(l) ==
    /\ lk[l].pc = "write_graph"
    /\ graphFile' = WriteGraph(
           [nodes |-> AddNode(ReadGraph(graphFile).nodes, lk[l].newFact.id),
            edges |-> AddEdges(ReadGraph(graphFile).edges, lk[l].graph.edges)])
    /\ LinkerBecomes(l, Scanned([lk[l] EXCEPT !.i = 1, !.entries = <<>>]))
    /\ UNCHANGED <<fs, appended, locks, wr, indexFile, out, hookVars>>

\* await writeTextFile(graphPath, JSON.stringify(graph))
LinkWriteGraph(l) ==
    /\ lk[l].pc = "write_graph"
    /\ graphFile' = WriteGraph(lk[l].graph)
    /\ LinkerBecomes(l, Scanned([lk[l] EXCEPT !.i = 1, !.entries = <<>>]))
    /\ UNCHANGED <<fs, appended, locks, wr, indexFile, out, hookVars>>

\* updateRelatedFactsFields, first loop: await loadKnowledge(dirname(file)).
LinkScan(l) ==
    /\ lk[l].pc = "scan"
    /\ LET file == lk[l].knowledgeFiles[lk[l].i]
           factIds == RelatedIdsIn(fs, file, lk[l].relatedFactIds)
       IN LinkerBecomes(l, Scanned([lk[l] EXCEPT
              !.entries = IF factIds = {} THEN @
                          ELSE Append(@, [file |-> file, factIds |-> factIds]),
              !.i = @ + 1]))
    /\ UNCHANGED <<fs, graphFile, appended, locks, wr, indexFile, out, hookVars>>

\* Second loop: await loadKnowledge(dirname(file)), then the facts are updated.
LinkReload(l) ==
    /\ lk[l].pc = "reload"
    /\ LET entry == lk[l].entries[lk[l].i]
           facts == LoadKnowledge(fs, Dirname(entry.file))
       IN LinkerBecomes(l,
              IF Modified(facts, entry.factIds, lk[l].newFact.id)
              THEN [lk[l] EXCEPT !.pc = "rewrite",
                                 !.lines = SerializeFacts(UpdatedFacts(
                                     facts, entry.factIds, lk[l].newFact.id))]
              ELSE Reloading([lk[l] EXCEPT !.i = @ + 1]))
    /\ UNCHANGED <<fs, graphFile, appended, locks, wr, indexFile, out, hookVars>>

\* await writeTextFile(file, lines)
LinkRewrite(l) ==
    /\ lk[l].pc = "rewrite"
    /\ fs' = WriteTextFile(fs, lk[l].entries[lk[l].i].file, lk[l].lines)
    /\ LinkerBecomes(l, Reloading([lk[l] EXCEPT !.i = @ + 1, !.lines = <<>>]))
    /\ UNCHANGED <<graphFile, appended, locks, wr, indexFile, out, hookVars>>

(***************************************************************************)
(* appendFact and linkFact calls that interleave.  The project starts with *)
(* two logs that appendFact calls wrote, every fact with at most           *)
(* MAX_RELATED_FACTS related_facts.                                        *)
(***************************************************************************)
ConcWriters == {"w1", "w2"}

ConcLinkers == {"l1"}

SeedConc(d) ==
    IF d = <<"a">> THEN << MkFact("C", <<>>) >> ELSE << MkFact("B", Repeat("A", 4)) >>

InitConc ==
    /\ fs = [p \in LogFiles |->
               LET d == CHOOSE e \in Dirs : FactsFileOf(e) = p
               IN [exists |-> TRUE, content |-> AppendLine(<<>>, SeedConc(d)[1])]]
    /\ graphFile = NoGraphFile
    /\ linked = NoFact
    /\ appended = [d \in Dirs |-> SeedConc(d)]
    /\ locks = [d \in Dirs |-> FALSE]
    /\ wr = [w \in ConcWriters |-> IdleWriter]
    /\ lk = [l \in ConcLinkers |-> IdleLinker]
    /\ indexFile = NoIndexFile
    /\ NoHooks
    /\ out = NoCall

NextConc ==
    \/ \E w \in DOMAIN wr, d \in Dirs : \E f \in AppendInputs(d) : AppendCall(w, d, f)
    \/ \E w \in DOMAIN wr : LockFree(w)
    \/ \E w \in DOMAIN wr : TimeoutPasses(w)
    \/ \E w \in DOMAIN wr : LockBusy(w)
    \/ \E w \in DOMAIN wr : Wake(w)
    \/ \E w \in DOMAIN wr : LockWrite(w)
    \/ \E w \in DOMAIN wr : ExistsCheck(w)
    \/ \E w \in DOMAIN wr : ReadLog(w)
    \/ \E w \in DOMAIN wr : WriteLog(w)
    \/ \E w \in DOMAIN wr : IoFails(w)
    \/ \E w \in DOMAIN wr : UnlockCheck(w)
    \/ \E w \in DOMAIN wr : UnlockRemove(w)
    \/ \E l \in DOMAIN lk, f \in LinkInputs : LinkCall(l, f)
    \/ \E l \in DOMAIN lk : LinkReadGraph(l)
    \/ \E l \in DOMAIN lk, k \in FindAllKnowledgeFiles(fs) : LinkFind(l, k)
    \/ \E l \in DOMAIN lk : LinkLoad(l)
    \/ \E l \in DOMAIN lk : LinkWriteGraph(l)
    \/ \E l \in DOMAIN lk : LinkScan(l)
    \/ \E l \in DOMAIN lk : LinkReload(l)
    \/ \E l \in DOMAIN lk : LinkRewrite(l)

SpecConc == InitConc /\ [][NextConc]_vars

(***************************************************************************)
(* buildSearchIndex(projectRoot): keyword -> locations, merged into the    *)
(* index already on disk.  index.keywords is a function whose domain is    *)
(* the set of its keys.                                                    *)
(***************************************************************************)
\* `${relativePath}:${fact.id}`
Location(file, id) == file \o <<":", id>>

\* An index begun from { keywords: {} } whatever is on disk.
ReadIndexFresh(file) == <<>>

\* existingIndex.keywords: the file's content, { keywords: {} } without a file.
ReadIndex(file) == IF file.exists THEN file.keywords ELSE <<>>

\* A push with no includes check.
IndexKeywordAlways(keywords, keyword, location) ==
    LET list == IF keyword \in DOMAIN keywords THEN keywords[keyword] ELSE <<>>
    IN [k \in (DOMAIN keywords) \cup {keyword} |->
            IF k = keyword THEN Append(list, location) ELSE keywords[k]]

\* if (!index.keywords[keyword]) ... = []; push unless includes(location)
IndexKeyword(keywords, keyword, location) ==
    LET list == IF keyword \in DOMAIN keywords THEN keywords[keyword] ELSE <<>>
        next == IF Includes(list, location) THEN list ELSE Append(list, location)
    IN [k \in (DOMAIN keywords) \cup {keyword} |->
            IF k = keyword THEN next ELSE keywords[k]]

\* for (const keyword of fact.keywords)
RECURSIVE IndexFactKeywords(_, _, _)
IndexFactKeywords(keywords, factKeywords, location) ==
    IF factKeywords = <<>> THEN keywords
    ELSE IndexFactKeywords(IndexKeyword(keywords, Head(factKeywords), location),
                           Tail(factKeywords), location)

\* for (const fact of facts)
RECURSIVE IndexFacts(_, _, _)
IndexFacts(keywords, file, facts) ==
    IF facts = <<>> THEN keywords
    ELSE IndexFacts(IndexFactKeywords(keywords, Head(facts).keywords,
                                      Location(file, Head(facts).id)),
                    file, Tail(facts))

\* for (const file of knowledgeFiles): the facts come from loadKnowledge(dirname(file)).
RECURSIVE IndexFiles(_, _, _)
IndexFiles(keywords, files, knowledgeFiles) ==
    IF knowledgeFiles = <<>> THEN keywords
    ELSE IndexFiles(IndexFacts(keywords, Head(knowledgeFiles),
                               LoadKnowledge(files, Dirname(Head(knowledgeFiles)))),
                    files, Tail(knowledgeFiles))

BuiltIndex(file, files, knowledgeFiles) == IndexFiles(ReadIndex(file), files, knowledgeFiles)

WriteIndex(keywords) == [exists |-> TRUE, keywords |-> keywords]

BuildSearchIndex(knowledgeFiles) ==
    /\ indexFile' = WriteIndex(BuiltIndex(indexFile, fs, knowledgeFiles))
    /\ out' = [op |-> "buildSearchIndex", result |-> indexFile'.keywords]
    /\ UNCHANGED <<fs, graphFile, linked, appended, locks, wr, lk, hookVars>>

\* A fact log removed from the project by its owner.
DeleteLog(directory) ==
    /\ fs[FactsFileOf(directory)].exists
    /\ fs' = [fs EXCEPT ![FactsFileOf(directory)] = EmptyFile]
    /\ out' = [op |-> "deleted", directory |-> directory]
    /\ UNCHANGED <<graphFile, linked, appended, locks, wr, lk, indexFile, hookVars>>

NextIndex ==
    \/ \E d \in Dirs : \E f \in AppendInputs(d) : AppendFact(d, f) /\ Alone
    \/ \E k \in FindAllKnowledgeFiles(fs) : BuildSearchIndex(k)
    \/ \E d \in Dirs : DeleteLog(d)

SpecIndex == Init /\ [][NextIndex]_vars

(***************************************************************************)
(* rebuildAllIndexes(projectRoot): buildSearchIndex, then buildGraph, each *)
(* with its own discovery.  out names the last call made and, for          *)
(* rebuildAllIndexes, how many of them were made in a row (up to           *)
(* MaxRebuilds).                                                           *)
(***************************************************************************)
MaxRebuilds == 2

RebuildsInARow == IF out.op = "rebuildAllIndexes" THEN out.times ELSE 0

RebuildAllIndexes(indexKnowledgeFiles, graphKnowledgeFiles) ==
    /\ indexFile' = WriteIndex(BuiltIndex(indexFile, fs, indexKnowledgeFiles))
    /\ graphFile' = WriteGraph(BuiltGraph(graphFile, fs, graphKnowledgeFiles))
    /\ out' = [op |-> "rebuildAllIndexes", times |-> Min({RebuildsInARow + 1, MaxRebuilds})]
    /\ UNCHANGED <<fs, linked, appended, locks, wr, lk, hookVars>>

\* What appendFact and linkFact, run from start to end, leave as they found it.
Called(op) ==
    /\ out' = [op |-> op]
    /\ UNCHANGED <<appended, locks, wr, lk, indexFile, hookVars>>

NextRebuild ==
    \/ \E d \in Dirs : \E f \in AppendInputs(d) : AppendFact(d, f) /\ Called("appendFact")
    \/ \E f \in LinkInputs, k \in FindAllKnowledgeFiles(fs) :
          LinkFact(f, k) /\ Called("linkFact")
    \/ \E ki \in FindAllKnowledgeFiles(fs), kg \in FindAllKnowledgeFiles(fs) :
          RebuildAllIndexes(ki, kg)

SpecRebuild == Init /\ [][NextRebuild]_vars

(***************************************************************************)
(* The graph file damaged between calls: what graph.json holds no longer   *)
(* parses (a write cut short, an edit by hand).  out names the last call   *)
(* and how it found graph.json.                                            *)
(***************************************************************************)
GraphFound ==
    IF ~graphFile.exists THEN "absent"
    ELSE IF ~graphFile.parses THEN "broken"
    ELSE "read"

CalledOnGraph(op) ==
    /\ out' = [op |-> op, found |-> GraphFound]
    /\ UNCHANGED <<appended, locks, wr, lk, indexFile, hookVars>>

BreakGraph ==
    /\ graphFile.exists
    /\ graphFile.parses
    /\ graphFile' = [graphFile EXCEPT !.parses = FALSE]
    /\ out' = [op |-> "broken"]
    /\ UNCHANGED <<fs, linked, appended, locks, wr, lk, indexFile, hookVars>>

NextGraph ==
    \/ \E d \in Dirs : \E f \in AppendInputs(d) : AppendFact(d, f) /\ CalledOnGraph("appendFact")
    \/ \E f \in LinkInputs, k \in FindAllKnowledgeFiles(fs) :
          LinkFact(f, k) /\ CalledOnGraph("linkFact")
    \/ \E k \in FindAllKnowledgeFiles(fs) : BuildGraph(k) /\ CalledOnGraph("buildGraph")
    \/ BreakGraph

SpecGraph == Init /\ [][NextGraph]_vars

(***************************************************************************)
(* linkFact on logs with up to MaxCandidates candidates.  Two directories, *)
(* a and b, each with its log (from appendFact(dir, C)) and, under its     *)
(* .knowledge folder, a second log: the one linkFact loads.  The           *)
(* candidates, in line order, are split between the two second logs.       *)
(***************************************************************************)
MaxCandidates == 6

CandidateKinds == {"match", "miss", "capped"}

CandidateAt(kind, i) ==
    CASE kind = "match"  -> MkFact(DIds[i], <<>>)
      [] kind = "miss"   -> MkFact(MIds[i], <<>>)
      [] kind = "capped" -> MkFact(DIds[i], Repeat("C", MAX_RELATED_FACTS))

\* The log after appendFact has been called with each fact in turn.
RECURSIVE LogOf(_)
LogOf(facts) ==
    IF facts = <<>> THEN <<>>
    ELSE AppendLine(LogOf(SubSeq(facts, 1, Len(facts) - 1)), facts[Len(facts)])

FileOf(facts) ==
    IF facts = <<>> THEN EmptyFile ELSE [exists |-> TRUE, content |-> LogOf(facts)]

CapDirs == { <<"a">>, <<"b">> }

CapFiles(kinds, split) ==
    LET facts == [i \in 1..Len(kinds) |-> CandidateAt(kinds[i], i)] IN
    [p \in { FactsFileOf(d) : d \in CapDirs \cup { Join(e, <<KNOWLEDGE>>) : e \in CapDirs } } |->
        IF p = FactsFileOf(<<"a", KNOWLEDGE>>) THEN FileOf(SubSeq(facts, 1, split))
        ELSE IF p = FactsFileOf(<<"b", KNOWLEDGE>>) THEN FileOf(SubSeq(facts, split + 1, Len(facts)))
        ELSE FileOf(<<MkFact("C", <<>>)>>)]

CapLinkInputs == { MkFact("A", <<>>), MkFact("A", <<"C", "C", "C">>) }

InitCap ==
    /\ \E n \in 0..MaxCandidates :
          \E kinds \in [1..n -> CandidateKinds], split \in 0..n : fs = CapFiles(kinds, split)
    /\ graphFile = NoGraphFile
    /\ linked = NoFact
    /\ appended = [d \in Dirs |-> <<>>]
    /\ locks = [d \in Dirs |-> FALSE]
    /\ wr = <<>>
    /\ lk = <<>>
    /\ indexFile = NoIndexFile
    /\ NoHooks
    /\ out = NoCall

\* The linkFact calls of a behaviour are at most MaxLinkCalls.
MaxLinkCalls == 1

LinkCallsMade == IF out.op = "linkFact" THEN out.calls ELSE 0

NextCap ==
    \E f \in CapLinkInputs, k \in FindAllKnowledgeFiles(fs) :
        /\ LinkCallsMade < MaxLinkCalls
        /\ LinkFact(f, k)
        /\ out' = [op |-> "linkFact", newFact |-> f, knowledgeFiles |-> k,
                   calls |-> LinkCallsMade + 1]
        /\ UNCHANGED <<appended, locks, wr, lk, indexFile, hookVars>>

SpecCap == InitCap /\ [][NextCap]_vars

(***************************************************************************)
(* One linkFact call, await by await, whose write-back may fail: the       *)
(* writeTextFile of a log throws and linkFact rejects.  The log linkFact   *)
(* loads starts as one of LinkSeeds.                                       *)
(***************************************************************************)
LinkRewriteFails(l) ==
    /\ lk[l].pc = "rewrite"
    /\ LinkerBecomes(l, [lk[l] EXCEPT !.pc = "threw", !.lines = <<>>])
    /\ UNCHANGED <<fs, graphFile, appended, locks, wr, indexFile, out, hookVars>>

LinkSeeds ==
    { << MkFact("B", <<>>) >>,
      << MkFact("B", Repeat("A", 4)) >>,
      << MkFact("B", <<>>), MkFact("A", <<>>) >>,
      << MkFact("A", <<>>), MkFact("C", <<>>) >> }

InitLink ==
    /\ \E seed \in LinkSeeds :
          fs = [p \in LogFiles |->
                   IF p = FactsFileOf(<<"a">>) THEN FileOf(<<MkFact("C", <<>>)>>)
                   ELSE FileOf(seed)]
    /\ graphFile = NoGraphFile
    /\ linked = NoFact
    /\ appended = [d \in Dirs |-> <<>>]
    /\ locks = [d \in Dirs |-> FALSE]
    /\ wr = <<>>
    /\ lk = [l \in {"l1"} |-> IdleLinker]
    /\ indexFile = NoIndexFile
    /\ NoHooks
    /\ out = NoCall

NextLink ==
    \/ \E l \in DOMAIN lk, f \in LinkInputs : LinkCall(l, f)
    \/ \E l \in DOMAIN lk : LinkReadGraph(l)
    \/ \E l \in DOMAIN lk, k \in FindAllKnowledgeFiles(fs) : LinkFind(l, k)
    \/ \E l \in DOMAIN lk : LinkLoad(l)
    \/ \E l \in DOMAIN lk : LinkWriteGraph(l)
    \/ \E l \in DOMAIN lk : LinkScan(l)
    \/ \E l \in DOMAIN lk : LinkReload(l)
    \/ \E l \in DOMAIN lk : LinkRewrite(l)
    \/ \E l \in DOMAIN lk : LinkRewriteFails(l)

SpecLink == InitLink /\ [][NextLink]_vars

(***************************************************************************)
(* Two linkFact calls whose awaits interleave freely, one call per caller. *)
(* The log the calls load holds B; each call is given A or D1, both of     *)
(* which share two keywords with B.                                        *)
(***************************************************************************)
RaceLinkers == {"l1", "l2"}

RaceInputs == { MkFact("A", <<>>), MkFact("D1", <<>>) }

InitRace ==
    /\ fs = [p \in LogFiles |-> FileOf(<<MkFact("B", <<>>)>>)]
    /\ graphFile = NoGraphFile
    /\ linked = NoFact
    /\ appended = [d \in Dirs |-> <<>>]
    /\ locks = [d \in Dirs |-> FALSE]
    /\ wr = <<>>
    /\ lk = [l \in RaceLinkers |-> IdleLinker]
    /\ indexFile = NoIndexFile
    /\ NoHooks
    /\ out = NoCall

NextRace ==
    \/ \E l \in DOMAIN lk, f \in RaceInputs : LinkCall(l, f)
    \/ \E l \in DOMAIN lk : LinkReadGraph(l)
    \/ \E l \in DOMAIN lk, k \in FindAllKnowledgeFiles(fs) : LinkFind(l, k)
    \/ \E l \in DOMAIN lk : LinkLoad(l)
    \/ \E l \in DOMAIN lk : LinkWriteGraph(l)
    \/ \E l \in DOMAIN lk : LinkScan(l)
    \/ \E l \in DOMAIN lk : LinkReload(l)
    \/ \E l \in DOMAIN lk : LinkRewrite(l)

SpecRace == InitRace /\ [][NextRace]_vars

(***************************************************************************)
(* Every fact of the project passed once to linkFact, in any order, one    *)
(* call after another.  appendFact calls have stored M1 in the log of      *)
(* directory a and D1..D<MaxFacts> in the log of a/.knowledge; the caller  *)
(* passes the fact objects it appended.  out.linked lists the ids passed.  *)
(***************************************************************************)
MaxFacts == 7

OnceFacts == { MkFact("M1", <<>>) } \cup { MkFact(DIds[i], <<>>) : i \in 1..MaxFacts }

InitOnce ==
    /\ fs = [p \in LogFiles |->
               IF p = FactsFileOf(<<"a">>) THEN FileOf(<<MkFact("M1", <<>>)>>)
               ELSE FileOf([i \in 1..MaxFacts |-> MkFact(DIds[i], <<>>)])]
    /\ graphFile = NoGraphFile
    /\ linked = NoFact
    /\ appended = [d \in Dirs |-> <<>>]
    /\ locks = [d \in Dirs |-> FALSE]
    /\ wr = <<>>
    /\ lk = <<>>
    /\ indexFile = NoIndexFile
    /\ NoHooks
    /\ out = [op |-> "linkFact", linked |-> {}]

NextOnce ==
    \E f \in OnceFacts, k \in FindAllKnowledgeFiles(fs) :
        /\ f.id \notin out.linked
        /\ LinkFact(f, k)
        /\ out' = [op |-> "linkFact", linked |-> out.linked \cup {f.id}]
        /\ UNCHANGED <<appended, locks, wr, lk, indexFile, hookVars>>

SpecOnce == InitOnce /\ [][NextOnce]_vars

(***************************************************************************)
(* Strings.  A string is a sequence of characters where its characters     *)
(* matter: toLowerCase and String.prototype.includes.                      *)
(***************************************************************************)
Spell(str) ==
    CASE str = ""        -> <<>>
      [] str = "order"   -> <<"o", "r", "d", "e", "r">>
      [] str = "status"  -> <<"s", "t", "a", "t", "u", "s">>
      [] str = "update"  -> <<"u", "p", "d", "a", "t", "e">>
      [] str = "ship"    -> <<"s", "h", "i", "p">>
      [] str = "Flow"    -> <<"F", "l", "o", "w">>
      [] str = "flow"    -> <<"f", "l", "o", "w">>
      [] str = "FLOW"    -> <<"F", "L", "O", "W">>
      [] str = "pay"     -> <<"p", "a", "y">>
      [] str = "Pack"    -> <<"P", "a", "c", "k">>
      [] str = "Ship it" -> <<"S", "h", "i", "p", " ", "i", "t">>
      [] str = "Log"     -> <<"L", "o", "g">>
      [] str = "At"      -> <<"A", "t">>
      [] str = "P I"     -> <<"P", " ", "I">>
      [] str = "zz"      -> <<"z", "z">>
      [] str = "a"       -> <<"a">>
      [] str = "b"       -> <<"b">>
      [] str = "x"       -> <<"x">>

UpperCase == <<"A", "C", "F", "I", "L", "O", "P", "S", "W">>

LowerCase == <<"a", "c", "f", "i", "l", "o", "p", "s", "w">>

LowerChar(c) ==
    IF \E i \in 1..Len(UpperCase) : UpperCase[i] = c
    THEN LowerCase[CHOOSE i \in 1..Len(UpperCase) : UpperCase[i] = c]
    ELSE c

\* A conversion that leaves every character as it is.
KeepCase(chars) == chars

\* String.prototype.toLowerCase
ToLowerCase(chars) == [i \in 1..Len(chars) |-> LowerChar(chars[i])]

\* text.includes(keyword)
StringIncludes(text, keyword) ==
    \E off \in 0..(Len(text) - Len(keyword)) :
        \A i \in 1..Len(keyword) : text[off + i] = keyword[i]

(***************************************************************************)
(* loadRelevantKnowledge(filePath, keywords) and matchesKeywords.          *)
(***************************************************************************)
\* The loop over normalizedKeywords, from index i on: subject, content, then the
\* fact's own keywords.
RECURSIVE MatchesFrom(_, _, _)
MatchesFrom(fact, normalizedKeywords, i) ==
    IF i > Len(normalizedKeywords) THEN FALSE
    ELSE LET keyword == normalizedKeywords[i]
             subject == ToLowerCase(Spell(fact.subject))
             content == ToLowerCase(Spell(fact.fact))
             factKeywords == [j \in 1..Len(fact.keywords) |->
                                 ToLowerCase(Spell(fact.keywords[j]))]
         IN IF StringIncludes(subject, keyword) THEN TRUE
            ELSE IF StringIncludes(content, keyword) THEN TRUE
            ELSE IF \E j \in 1..Len(factKeywords) : StringIncludes(factKeywords[j], keyword)
            THEN TRUE
            ELSE MatchesFrom(fact, normalizedKeywords, i + 1)

MatchesKeywords(fact, normalizedKeywords) == MatchesFrom(fact, normalizedKeywords, 1)

LoadRelevantOutcome(files, filePath, keywords, readOk) ==
    LET allFacts == LoadOutcome(files, Dirname(filePath), readOk)
        normalizedKeywords == [i \in 1..Len(keywords) |-> ToLowerCase(Spell(keywords[i]))]
    IN IF allFacts.raised THEN allFacts
       ELSE IF Len(keywords) = 0 THEN allFacts
       ELSE Returns(SelectSeq(allFacts.facts,
                              LAMBDA fact : MatchesKeywords(fact, normalizedKeywords)))

(***************************************************************************)
(* The loaders on a log of any lines.  The log of directory a is made of   *)
(* up to MaxLogLines lines, each of one kind: a fact's JSON, the same with *)
(* blanks around it, an empty line, blanks, text that is no JSON, or JSON  *)
(* with text after it.  Directory a/.knowledge has no log.                 *)
(***************************************************************************)
MaxLogLines == 3

WS == [t |-> "ws", v |-> NoFact]

BAD == [t |-> "bad", v |-> NoFact]

LineKinds == {"A", "B", "C", "padded", "empty", "blanks", "junk", "tail"}

LineOf(kind) ==
    CASE kind = "A"      -> << JSONStringify(MkFact("A", <<>>)) >>
      [] kind = "B"      -> << JSONStringify(MkFact("B", <<"A">>)) >>
      [] kind = "C"      -> << JSONStringify(MkFact("C", <<>>)) >>
      [] kind = "padded" -> << WS, JSONStringify(MkFact("B", <<>>)), WS >>
      [] kind = "empty"  -> <<>>
      [] kind = "blanks" -> << WS, WS >>
      [] kind = "junk"   -> << BAD >>
      [] kind = "tail"   -> << JSONStringify(MkFact("A", <<>>)), BAD >>

\* lines.join('\n')
RECURSIVE JoinLines(_)
JoinLines(kinds) ==
    IF kinds = <<>> THEN <<>>
    ELSE IF Len(kinds) = 1 THEN LineOf(kinds[1])
    ELSE LineOf(Head(kinds)) \o <<NL>> \o JoinLines(Tail(kinds))

LogInputs == UNION { [1..n -> LineKinds] : n \in 0..MaxLogLines }

DirectoryInputs == Dirs

FilePathInputs == { <<"a", "service.ts">>, <<"a", KNOWLEDGE, "notes.md">>, <<"b", "x.ts">> }

KeywordInputs ==
    { <<>>, <<"FLOW">>, <<"ship">>, <<"At">>, <<"zz">>, <<"P I">>, <<"zz", "FLOW">>, <<"">> }

InitLoad ==
    /\ \E kinds \in LogInputs, exists \in BOOLEAN :
          /\ exists \/ kinds = <<>>
          /\ fs = [NoFiles EXCEPT ![FactsFileOf(<<"a">>)] =
                      [exists |-> exists, content |-> JoinLines(kinds)]]
          /\ out = [op |-> "none", kinds |-> kinds]
    /\ graphFile = NoGraphFile
    /\ linked = NoFact
    /\ appended = [d \in Dirs |-> <<>>]
    /\ locks = [d \in Dirs |-> FALSE]
    /\ wr = <<>>
    /\ lk = <<>>
    /\ indexFile = NoIndexFile
    /\ NoHooks

\* loadKnowledge(directory)
LoadCall(directory, readOk) ==
    /\ out' = [op |-> "loadKnowledge", kinds |-> out.kinds, directory |-> directory,
               readOk |-> readOk, result |-> LoadOutcome(fs, directory, readOk)]
    /\ UNCHANGED <<fs, graphFile, linked, appended, locks, wr, lk, indexFile, hookVars>>

\* loadRelevantKnowledge(filePath, keywords)
LoadRelevantCall(filePath, keywords, readOk) ==
    /\ out' = [op |-> "loadRelevantKnowledge", kinds |-> out.kinds,
               filePath |-> filePath, keywords |-> keywords, readOk |-> readOk,
               result |-> LoadRelevantOutcome(fs, filePath, keywords, readOk)]
    /\ UNCHANGED <<fs, graphFile, linked, appended, locks, wr, lk, indexFile, hookVars>>

NextLoad ==
    \/ \E d \in DirectoryInputs, readOk \in BOOLEAN : LoadCall(d, readOk)
    \/ \E p \in FilePathInputs, k \in KeywordInputs, readOk \in BOOLEAN :
          LoadRelevantCall(p, k, readOk)

SpecLoad == InitLoad /\ [][NextLoad]_vars

(***************************************************************************)
(* The knowledge extractor hook (hooks/knowledge-extractor.ts), await by   *)
(* await.  Time is counted in ticks: debounceMs is DebounceTicks ticks, a  *)
(* timer is due when it has none left, and the runtime runs a due timer's  *)
(* callback at some later turn of the event loop, never before it is due.  *)
(***************************************************************************)
MaxTimers == 3          \* setTimeout calls
MaxExtractions == 2     \* extractKnowledge invocations
DebounceTicks == 2      \* ticks that make debounceMs

ModifiedFile == "f"

ZeroResult == [modulesUpdated |-> 0, sectionsAdded |-> 0, indexUpdated |-> FALSE]

\* The awaits inside the try block of extractKnowledge.
InTry ==
    {"messages", "create", "skill_exists", "skill_read", "prompt", "write_skill",
     "update_index"}

\* extractKnowledge has returned: sc-extract's call is over, a timer's callback
\* goes on to await showToast.
AfterReturn(r) == IF r.timer = NoTimer THEN "done" ELSE "toast"

\* A finally block that clears the flag only when the extraction succeeded.
FinallyAfterSuccessOnly(exs, e, r) ==
    /\ sessionExtractionInProgress' =
           IF r.result.indexUpdated
           THEN [sessionExtractionInProgress EXCEPT ![r.session] = FALSE]
           ELSE sessionExtractionInProgress
    /\ ex' = [exs EXCEPT ![e] =
                 [r EXCEPT !.pc = IF r.extractionSessionID THEN "cleanup" ELSE AfterReturn(r)]]

\* The finally block, up to its await: the flag is deleted; with an extraction
\* session created, session.delete is awaited, otherwise the call returns.
Finally(exs, e, r) ==
    /\ sessionExtractionInProgress' =
           [sessionExtractionInProgress EXCEPT ![r.session] = FALSE]
    /\ ex' = [exs EXCEPT ![e] =
                 [r EXCEPT !.pc = IF r.extractionSessionID THEN "cleanup" ELSE AfterReturn(r)]]

\* An await inside the try block settles and the call goes on to the next.
Goes(e, r) ==
    /\ ex' = [ex EXCEPT ![e] = r]
    /\ UNCHANGED sessionExtractionInProgress

\* if (sessionExtractionInProgress.get(sessionID))
Guard(sessionID) == sessionExtractionInProgress[sessionID]

\* extractKnowledge(ctx, sessionID) up to its first await: the guard, the flag
\* and the check of the modified files.  timer is the timer whose callback
\* calls, NoTimer for sc-extract.
ExtractKnowledge(sessionID, timer) ==
    LET e == Len(ex) + 1
        r == [session |-> sessionID, timer |-> timer, pc |-> "messages", passed |-> TRUE,
              extractionSessionID |-> FALSE, result |-> ZeroResult]
        modifiedFiles == sessionModifiedFiles[sessionID]
    IN /\ Len(ex) < MaxExtractions
       /\ IF Guard(sessionID)
          THEN /\ ex' = Append(ex, [r EXCEPT !.passed = FALSE, !.pc = AfterReturn(r)])
               /\ UNCHANGED sessionExtractionInProgress
          ELSE IF ~modifiedFiles.present \/ modifiedFiles.files = {}
          THEN Finally(Append(ex, r), e, r)
          ELSE /\ ex' = Append(ex, r)
               /\ sessionExtractionInProgress' =
                      [sessionExtractionInProgress EXCEPT ![sessionID] = TRUE]

\* What a step of the extractor leaves alone.
StoreUntouched ==
    UNCHANGED <<fs, graphFile, linked, appended, locks, wr, lk, indexFile, out,
                sessionCaches, reads>>

\* The sc-extract tool of a session (commands/extract.ts).
ExtractCommand(sessionID) ==
    /\ ExtractKnowledge(sessionID, NoTimer)
    /\ UNCHANGED <<sessionDebounceTimers, sessionModifiedFiles, timers>>
    /\ StoreUntouched

\* await ctx.client.session.messages(...): its result carries an error or not.
Messages(e, ok) ==
    /\ e \in DOMAIN ex /\ ex[e].pc = "messages"
    /\ IF ok THEN Goes(e, [ex[e] EXCEPT !.pc = "create"]) ELSE Finally(ex, e, ex[e])
    /\ UNCHANGED <<sessionDebounceTimers, sessionModifiedFiles, timers>>
    /\ StoreUntouched

\* await ctx.client.session.create(...)
Create(e, ok) ==
    /\ e \in DOMAIN ex /\ ex[e].pc = "create"
    /\ IF ok THEN Goes(e, [ex[e] EXCEPT !.pc = "skill_exists", !.extractionSessionID = TRUE])
       ELSE Finally(ex, e, ex[e])
    /\ UNCHANGED <<sessionDebounceTimers, sessionModifiedFiles, timers>>
    /\ StoreUntouched

\* await fileExists(existingSkillPath)
SkillExists(e, exists) ==
    /\ e \in DOMAIN ex /\ ex[e].pc = "skill_exists"
    /\ Goes(e, [ex[e] EXCEPT !.pc = IF exists THEN "skill_read" ELSE "prompt"])
    /\ UNCHANGED <<sessionDebounceTimers, sessionModifiedFiles, timers>>
    /\ StoreUntouched

\* await readTextFile(existingSkillPath): a rejection is caught by the catch block.
SkillRead(e, ok) ==
    /\ e \in DOMAIN ex /\ ex[e].pc = "skill_read"
    /\ IF ok THEN Goes(e, [ex[e] EXCEPT !.pc = "prompt"]) ELSE Finally(ex, e, ex[e])
    /\ UNCHANGED <<sessionDebounceTimers, sessionModifiedFiles, timers>>
    /\ StoreUntouched

\* await withTimeout(ctx.client.session.prompt(...), 120000) and the parse of the
\* response: a skill, {"skill": null}, text JSON.parse rejects, or a rejection
\* (the timeout, or unwrapData throwing).
PromptOutcomes == {"skill", "null", "unparsable", "throws"}

Prompt(e, outcome) ==
    /\ e \in DOMAIN ex /\ ex[e].pc = "prompt"
    /\ IF outcome = "skill" THEN Goes(e, [ex[e] EXCEPT !.pc = "write_skill"])
       ELSE Finally(ex, e, ex[e])
    /\ UNCHANGED <<sessionDebounceTimers, sessionModifiedFiles, timers>>
    /\ StoreUntouched

\* await writeModuleSkill(...); sections is skillContent.sections.length.
WriteSkill(e, ok, sections) ==
    /\ e \in DOMAIN ex /\ ex[e].pc = "write_skill"
    /\ IF ok THEN Goes(e, [ex[e] EXCEPT !.pc = "update_index",
                                        !.result.modulesUpdated = 1,
                                        !.result.sectionsAdded = sections])
       ELSE Finally(ex, e, ex[e])
    /\ UNCHANGED <<sessionDebounceTimers, sessionModifiedFiles, timers>>
    /\ StoreUntouched

\* await updateGlobalIndex(...), then sessionModifiedFiles.delete(sessionID).
UpdateIndex(e, ok) ==
    /\ e \in DOMAIN ex /\ ex[e].pc = "update_index"
    /\ IF ok
       THEN /\ Finally(ex, e, [ex[e] EXCEPT !.result.indexUpdated = TRUE])
            /\ sessionModifiedFiles' = [sessionModifiedFiles EXCEPT ![ex[e].session] = Absent]
       ELSE /\ Finally(ex, e, ex[e])
            /\ UNCHANGED sessionModifiedFiles
    /\ UNCHANGED <<sessionDebounceTimers, timers>>
    /\ StoreUntouched

\* The finally block's await ctx.client.session.delete(...) settles; a rejection
\* is caught and logged.
Cleanup(e) ==
    /\ e \in DOMAIN ex /\ ex[e].pc = "cleanup"
    /\ Goes(e, [ex[e] EXCEPT !.pc = AfterReturn(ex[e])])
    /\ UNCHANGED <<sessionDebounceTimers, sessionModifiedFiles, timers>>
    /\ StoreUntouched

\* The timer callback after extractKnowledge: await showToast(...).catch settles,
\* then sessionDebounceTimers.delete(sessionID).
Toast(e) ==
    /\ e \in DOMAIN ex /\ ex[e].pc = "toast"
    /\ Goes(e, [ex[e] EXCEPT !.pc = "done"])
    /\ sessionDebounceTimers' = [sessionDebounceTimers EXCEPT ![ex[e].session] = NoTimer]
    /\ UNCHANGED <<sessionModifiedFiles, timers>>
    /\ StoreUntouched

\* clearTimeout(timer): a timer that has not run yet never runs.
ClearTimeout(ts, timer) ==
    IF timer # NoTimer /\ ts[timer].state = "pending"
    THEN [ts EXCEPT ![timer].state = "cleared"] ELSE ts

\* The handler of session.idle: the timer the Map holds is cleared and a new one
\* is set and stored (config is undefined: autoExtract is on).
SessionIdle(sessionID) ==
    /\ Len(timers) < MaxTimers
    /\ timers' = Append(ClearTimeout(timers, sessionDebounceTimers[sessionID]),
                        [session |-> sessionID, state |-> "pending", left |-> DebounceTicks])
    /\ sessionDebounceTimers' =
           [sessionDebounceTimers EXCEPT ![sessionID] = Len(timers) + 1]
    /\ UNCHANGED <<sessionModifiedFiles, sessionExtractionInProgress, ex>>
    /\ StoreUntouched

\* The handlers of session.deleted, the context injector's and then the
\* extractor's: the session's cache, timer entry and modified files are deleted.
SessionDeleted(sessionID) ==
    /\ timers' = ClearTimeout(timers, sessionDebounceTimers[sessionID])
    /\ sessionDebounceTimers' = [sessionDebounceTimers EXCEPT ![sessionID] = NoTimer]
    /\ sessionModifiedFiles' = [sessionModifiedFiles EXCEPT ![sessionID] = Absent]
    /\ sessionCaches' = [sessionCaches EXCEPT ![sessionID].present = FALSE,
                                              ![sessionID].files = {}]
    /\ UNCHANGED <<sessionExtractionInProgress, ex, reads>>
    /\ UNCHANGED <<fs, graphFile, linked, appended, locks, wr, lk, indexFile, out>>

\* tool.execute.after of a file modification tool: the file is tracked.
ToolModifies(sessionID) ==
    /\ sessionModifiedFiles' =
           [sessionModifiedFiles EXCEPT ![sessionID] =
               [present |-> TRUE, files |-> @.files \cup {ModifiedFile}]]
    /\ UNCHANGED <<sessionDebounceTimers, sessionExtractionInProgress, timers, ex>>
    /\ StoreUntouched

\* A tick of the clock goes by.
Tick ==
    /\ \E t \in DOMAIN timers : timers[t].left > 0
    /\ timers' = [t \in DOMAIN timers |->
                     [timers[t] EXCEPT !.left = IF @ > 0 THEN @ - 1 ELSE 0]]
    /\ UNCHANGED <<sessionDebounceTimers, sessionModifiedFiles,
                   sessionExtractionInProgress, ex>>
    /\ StoreUntouched

\* The runtime runs the callback of a timer that is due: extractKnowledge.
TimerFires(t) ==
    /\ t \in DOMAIN timers
    /\ timers[t].state = "pending"
    /\ timers[t].left = 0
    /\ timers' = [timers EXCEPT ![t].state = "fired"]
    /\ ExtractKnowledge(timers[t].session, t)
    /\ UNCHANGED <<sessionDebounceTimers, sessionModifiedFiles>>
    /\ StoreUntouched

InitExtract == InitStore

\* The sessions whose events and tools reach the extractor hook here; the Maps
\* have an entry for every session of Sessions.
ExtractorSessions == {"s1"}

\* The awaits of invocation e that are pending settle.
ExtractionStep(e) ==
    \/ \E ok \in BOOLEAN : Messages(e, ok)
    \/ \E ok \in BOOLEAN : Create(e, ok)
    \/ \E exists \in BOOLEAN : SkillExists(e, exists)
    \/ \E ok \in BOOLEAN : SkillRead(e, ok)
    \/ \E outcome \in PromptOutcomes : Prompt(e, outcome)
    \/ \E ok \in BOOLEAN, sections \in {0, 1} : WriteSkill(e, ok, sections)
    \/ \E ok \in BOOLEAN : UpdateIndex(e, ok)
    \/ Cleanup(e)
    \/ Toast(e)

NextExtract ==
    \/ \E s \in ExtractorSessions : ExtractCommand(s)
    \/ \E s \in ExtractorSessions : SessionIdle(s)
    \/ \E s \in ExtractorSessions : SessionDeleted(s)
    \/ \E s \in ExtractorSessions : ToolModifies(s)
    \/ Tick
    \/ \E t \in 1..MaxTimers : TimerFires(t)
    \/ \E e \in 1..MaxExtractions : ExtractionStep(e)

\* Every await of an invocation settles: the host answers, withTimeout bounds
\* the prompt.
SpecExtract ==
    /\ InitExtract
    /\ [][NextExtract]_vars
    /\ \A e \in 1..MaxExtractions : WF_vars(ExtractionStep(e))

(***************************************************************************)
(* The context injector hook (hooks/context-injector.ts): tool.execute.after*)
(* of the Read tool, up to its await and after it.  A read's record holds  *)
(* the Set object getSessionCache returned and what was added to the       *)
(* tool's output.                                                          *)
(***************************************************************************)
MaxReads == 3        \* Read calls

maxRelevantFacts == 5

ReadPaths == { <<"a", "ship.ts">>, <<"a", "zz.ts">>, <<"b", "x.ts">> }

\* basename(filePath, extname(filePath)) of the files read.
Stem(fileName) ==
    CASE fileName = "ship.ts" -> "ship"
      [] fileName = "zz.ts"   -> "zz"
      [] fileName = "x.ts"    -> "x"

\* extractKeywords(filePath): the file name without extension, then the
\* directory names of the path.
ExtractKeywords(filePath) ==
    (IF Stem(filePath[Len(filePath)]) # "" THEN <<Stem(filePath[Len(filePath)])>> ELSE <<>>)
        \o SelectSeq(Dirname(filePath), LAMBDA part : part # "" /\ part # ".")

\* getSessionCache(sessionID): the session's Set, a new one when the Map has none.
GetSessionCache(caches, sessionID) ==
    IF caches[sessionID].present THEN caches
    ELSE [caches EXCEPT ![sessionID] =
             [present |-> TRUE, object |-> @.object + 1, files |-> {}]]

\* cache.add(filePath) on the Set object a read holds: the Map shows it only
\* while it still holds that object.
CacheAdd(caches, sessionID, object, filePath) ==
    IF caches[sessionID].present /\ caches[sessionID].object = object
    THEN [caches EXCEPT ![sessionID].files = @ \cup {filePath}]
    ELSE caches

\* formatFactsAsMarkdown(facts.slice(0, maxFacts)): the section names these
\* facts, in this order (the facts of Catalog are of one importance, which the
\* sort leaves in place).
KnowledgeSection(facts) ==
    [i \in 1..Len(Slice(facts, maxRelevantFacts)) |-> facts[i].id]

InjectorUntouched ==
    UNCHANGED <<fs, graphFile, linked, appended, locks, wr, lk, indexFile, out,
                sessionDebounceTimers, sessionModifiedFiles, sessionExtractionInProgress,
                timers, ex>>

\* toolExecuteAfter for a Read of filePath, up to await loadRelevantKnowledge:
\* a path the cache has ends the hook.
ReadHook(sessionID, filePath) ==
    LET caches == GetSessionCache(sessionCaches, sessionID)
        r == [session |-> sessionID, filePath |-> filePath,
              cache |-> caches[sessionID].object, output |-> <<>>,
              pc |-> IF filePath \in caches[sessionID].files THEN "cached" ELSE "load"]
    IN /\ Len(reads) < MaxReads
       /\ sessionCaches' = caches
       /\ reads' = Append(reads, r)
       /\ InjectorUntouched

\* await loadRelevantKnowledge(filePath, keywords) settles: with no facts the
\* path is cached; otherwise the section is added to the output and the path
\* cached.
ReadLoaded(r, readOk) ==
    /\ r \in DOMAIN reads /\ reads[r].pc = "load"
    /\ LET facts == LoadRelevantOutcome(fs, reads[r].filePath,
                                        ExtractKeywords(reads[r].filePath), readOk).facts
       IN /\ reads' = [reads EXCEPT
                 ![r].pc = IF facts = <<>> THEN "none" ELSE "injected",
                 ![r].output = IF facts = <<>> THEN @ ELSE Append(@, KnowledgeSection(facts))]
          /\ sessionCaches' = CacheAdd(sessionCaches, reads[r].session, reads[r].cache,
                                       reads[r].filePath)
    /\ InjectorUntouched

\* The project's log of directory a holds C, or A and C.
InjectSeeds == { <<MkFact("C", <<>>)>>, <<MkFact("A", <<>>), MkFact("C", <<>>)>> }

InitInject ==
    /\ \E seed \in InjectSeeds :
          fs = [p \in LogFiles |->
                   IF p = FactsFileOf(<<"a">>) THEN FileOf(seed) ELSE EmptyFile]
    /\ graphFile = NoGraphFile
    /\ linked = NoFact
    /\ appended = [d \in Dirs |-> <<>>]
    /\ locks = [d \in Dirs |-> FALSE]
    /\ wr = <<>>
    /\ lk = <<>>
    /\ indexFile = NoIndexFile
    /\ NoHooks
    /\ out = NoCall

NextInject ==
    \/ \E s \in Sessions, p \in ReadPaths : ReadHook(s, p)
    \/ \E r \in 1..MaxReads, readOk \in BOOLEAN : ReadLoaded(r, readOk)
    \/ \E s \in Sessions : SessionDeleted(s)

SpecInject == InitInject /\ [][NextInject]_vars

(***************************************************************************)
(* What the claims speak of.                                               *)
(***************************************************************************)
\* Every fact stored in any facts.jsonl.
StoredIn(files) == UNION { Range(LoadKnowledge(files, d)) : d \in Dirs }

\* The facts of the logs that discovery finds.
DiscoveredIn(files) ==
    UNION { Range(LoadKnowledge(files, d)) :
              d \in { e \in Dirs : files[FactsFileOf(e)].exists /\ GlobMatches(FactsFileOf(e)) } }

\* Keywords two facts share, as sets; citation files they share.
SharedKeywords(x, y) == Range(x.keywords) \cap Range(y.keywords)

SharedFiles(x, y) ==
    Range(MapFilePortion(x.citations)) \cap Range(MapFilePortion(y.citations))

Edges(file) == Range(file.edges)

HasBothEdges(file, x, y) == Edge(x, y) \in Edges(file) /\ Edge(y, x) \in Edges(file)

\* The candidates of linkFact(newFact) that satisfy the relation rule and are not
\* at the cap.
Candidates(files, newFact) ==
    { c \in DiscoveredIn(files) :
        /\ c.id # newFact.id
        /\ Len(c.related_facts) < MAX_RELATED_FACTS
        /\ Cardinality(SharedKeywords(newFact, c)) >= 2 \/ SharedFiles(newFact, c) # {} }

(***************************************************************************)
(* Claims about one linkFact call (Spec: the calls run one after another). *)
(***************************************************************************)
\* C5: linkFact(A) links A with every existing fact B (B.id # A.id) that shares at
\* least 2 keywords with A, when neither is at the cap of 5 and fewer than 5 other
\* candidates match: both edges are in the persisted graph and B's id is in
\* A.related_facts.
C5_KeywordPairLinked ==
    [][\A newFact \in LinkInputs, k \in FindAllKnowledgeFiles(fs) :
         LinkFact(newFact, k) =>
           \A B \in DiscoveredIn(fs) :
              ( /\ B.id # newFact.id
                /\ Cardinality(SharedKeywords(newFact, B)) >= 2
                /\ Len(newFact.related_facts) < MAX_RELATED_FACTS
                /\ Len(B.related_facts) < MAX_RELATED_FACTS
                /\ Cardinality(Candidates(fs, newFact) \ {B}) < MAX_RELATED_FACTS )
              => /\ HasBothEdges(graphFile', newFact.id, B.id)
                 /\ Includes(linked'.related_facts, B.id)]_vars

\* C6: linkFact(A) links A with every existing fact B that has no keyword in common
\* with A but a citation of the same file, when neither is at the cap and fewer
\* than 5 other candidates match.
C6_CitationPairLinked ==
    [][\A newFact \in LinkInputs, k \in FindAllKnowledgeFiles(fs) :
         LinkFact(newFact, k) =>
           \A B \in DiscoveredIn(fs) :
              ( /\ B.id # newFact.id
                /\ SharedKeywords(newFact, B) = {}
                /\ SharedFiles(newFact, B) # {}
                /\ Len(newFact.related_facts) < MAX_RELATED_FACTS
                /\ Len(B.related_facts) < MAX_RELATED_FACTS
                /\ Cardinality(Candidates(fs, newFact) \ {B}) < MAX_RELATED_FACTS )
              => /\ HasBothEdges(graphFile', newFact.id, B.id)
                 /\ Includes(linked'.related_facts, B.id)]_vars

\* How often id x occurs in a related_facts list.
Occurrences(related, x) == Cardinality({ i \in 1..Len(related) : related[i] = x })

\* C7: for an existing fact B that shares fewer than 2 keywords and no citation
\* file with A, linkFact(A) adds no edge between A and B, does not add B's id to
\* A.related_facts and does not add A's id to a stored record of B.
C7_UnrelatedPairNotLinked ==
    [][\A newFact \in LinkInputs, k \in FindAllKnowledgeFiles(fs) :
         LinkFact(newFact, k) =>
           \A B \in StoredIn(fs) :
              ( /\ B.id # newFact.id
                /\ Cardinality(SharedKeywords(newFact, B)) < 2
                /\ SharedFiles(newFact, B) = {} )
              => /\ \A e \in {Edge(newFact.id, B.id), Edge(B.id, newFact.id)} :
                        e \in Edges(graphFile') => e \in Edges(graphFile)
                 /\ Occurrences(linked'.related_facts, B.id)
                        <= Occurrences(newFact.related_facts, B.id)
                 /\ \A X \in StoredIn(fs') :
                        (X.id = B.id /\ Includes(X.related_facts, newFact.id))
                        => \E Y \in StoredIn(fs) :
                              Y.id = B.id /\ Includes(Y.related_facts, newFact.id)]_vars

(***************************************************************************)
(* Invariants of the persisted graph.                                      *)
(***************************************************************************)
\* C8: after any sequence of linkFact and buildGraph calls from an absent graph,
\* the persisted edges are symmetric: with (x, y, 'related') also (y, x, 'related').
C8_EdgesSymmetric ==
    \A e \in Edges(graphFile) :
        [from |-> e.to, to |-> e.from, relation |-> e.relation] \in Edges(graphFile)

C8_Witness ==
    /\ Len(graphFile.edges) >= 4
    /\ Len(graphFile.nodes) = Cardinality(Ids)

\* C9: graph.json never holds two edges with the same (from, to, relation), also
\* after repeated calls for one fact and with logs that hold an id twice.
C9_NoDuplicateEdges ==
    \A i, j \in 1..Len(graphFile.edges) :
        graphFile.edges[i] = graphFile.edges[j] => i = j

\* The latest call staged the edges of one pair twice: two stored copies matched.
C9_Witness ==
    /\ linked.id \in {"A", "C"}
    /\ \E i, j \in 1..Len(linked.related_facts) :
          /\ i < j
          /\ linked.related_facts[i] = linked.related_facts[j]
          /\ HasBothEdges(graphFile, linked.id, linked.related_facts[i])

\* x comes before y in the sequence s.
Before(s, x, y) == \E i, j \in 1..Len(s) : i < j /\ s[i] = x /\ s[j] = y

NoDuplicateNodes(nodes) == \A i, j \in 1..Len(nodes) : nodes[i] = nodes[j] => i = j

\* C10: graph.nodes holds every id at most once, and the ids already present keep
\* their relative order in every linkFact and buildGraph call.
C10_NodesUniqueAndOrdered ==
    /\ [](NoDuplicateNodes(graphFile.nodes))
    /\ [][\A x, y \in Range(graphFile.nodes) :
             Before(graphFile.nodes, x, y) => Before(graphFile'.nodes, x, y)]_vars

C10_Witness ==
    /\ Len(graphFile.nodes) = Cardinality(Ids)
    /\ graphFile.edges = <<>>
    /\ linked.id # ""

(***************************************************************************)
(* Claims about the store.                                                 *)
(***************************************************************************)
\* C1: under every interleaving of appendFact and linkFact calls, from logs whose
\* facts have at most 5 related_facts, every fact stored in a facts.jsonl and the
\* newFact object of every linkFact call that has returned has at most
\* MAX_RELATED_FACTS related_facts.
C1_RelatedFactsCapped ==
    /\ \A f \in StoredIn(fs) : Len(f.related_facts) <= MAX_RELATED_FACTS
    /\ \A l \in DOMAIN lk :
          lk[l].pc = "done" => Len(lk[l].newFact.related_facts) <= MAX_RELATED_FACTS

\* A returned call related its fact to a stored fact and pushed its id as that
\* fact's fifth related fact.
C1_Witness ==
    \E l \in DOMAIN lk :
        /\ lk[l].pc = "done"
        /\ \E f \in StoredIn(fs) :
              /\ Includes(lk[l].newFact.related_facts, f.id)
              /\ Len(f.related_facts) = MAX_RELATED_FACTS
              /\ f.related_facts[MAX_RELATED_FACTS] = lk[l].newFact.id

\* C4: a fact whose appendFact(directory, fact) call has returned is in the
\* directory's log in every later state, whatever appendFact and linkFact calls
\* interleave.
C4_AppendedFactsStay ==
    \A d \in Dirs : \A i \in 1..Len(appended[d]) :
        \E f \in Range(LoadKnowledge(fs, d)) : f.id = appended[d][i].id

\* C2: when concurrent appendFact calls with pairwise distinct fact ids on one
\* initially empty directory have all returned without error, facts.jsonl holds
\* every appended fact exactly once.
C2_ConcurrentAppendsAllStored ==
    (\A w \in DOMAIN wr : wr[w].pc = "done")
    => \A w \in DOMAIN wr :
          Cardinality({ i \in 1..Len(LoadKnowledge(fs, wr[w].directory)) :
                          LoadKnowledge(fs, wr[w].directory)[i].id = wr[w].fact.id }) = 1

\* C3: after appendFact calls on a directory that ran one after another,
\* loadKnowledge(directory) returns exactly the appended facts in append order.
C3_LoadReturnsAppendedInOrder ==
    \A d \in Dirs : LoadKnowledge(fs, d) = appended[d]

C3_Witness ==
    \E d \in Dirs :
        /\ Len(appended[d]) >= 3
        /\ appended[d][1].id # appended[d][2].id
        /\ appended[d][2] # appended[d][3]
        /\ LoadKnowledge(fs, d) = appended[d]

(***************************************************************************)
(* Claims about the records linkFact rewrites.                             *)
(***************************************************************************)
\* C11: when newFact is stored in a log before linkFact(newFact) runs and the call
\* declares facts related, then after the call a stored record of newFact lists
\* the id of every fact in the call's resulting related_facts.
C11_NewFactRecordUpdated ==
    [][\A newFact \in LinkInputs, k \in FindAllKnowledgeFiles(fs) :
         ( /\ LinkFact(newFact, k)
           /\ \E X \in StoredIn(fs) : X.id = newFact.id
           /\ Detect(newFact, AllFacts(fs, k)).relatedFactIds # <<>> )
         => \E X \in StoredIn(fs') :
               /\ X.id = newFact.id
               /\ \A id \in Range(linked'.related_facts) :
                     Includes(X.related_facts, id)]_vars

(***************************************************************************)
(* Claims about the lock of appendFact.                                    *)
(***************************************************************************)
\* The calls inside the critical section on a directory: acquireLock has returned
\* and releaseLock has not begun.
InCriticalSection(d) ==
    { w \in DOMAIN wr : wr[w].directory = d /\ wr[w].pc \in {"exists_check", "read", "write"} }

\* C12: an appendFact call that finds the .lock file present once its timeout has
\* passed fails; that step changes neither facts.jsonl nor the lock file, the
\* failed call stays failed, and its fact is never in the log.
C12_LockTimeoutFails ==
    /\ [][\A w \in DOMAIN wr :
            ( /\ wr[w].pc = "lock_check"
              /\ wr[w].expired
              /\ locks[wr[w].directory]
              /\ wr'[w] # wr[w] )
            => /\ wr'[w].pc = "failed"
               /\ fs' = fs
               /\ locks' = locks]_vars
    /\ [][\A w \in DOMAIN wr : wr[w].pc = "failed" => wr'[w].pc = "failed"]_vars
    /\ [](\A w \in DOMAIN wr :
            wr[w].pc = "failed"
            => \A f \in Range(LoadKnowledge(fs, wr[w].directory)) : f.id # wr[w].fact.id)

\* A call has failed while the lock it waited for is still there and its holder
\* is still inside the critical section.
C12_Witness ==
    \E w \in DOMAIN wr :
        /\ wr[w].pc = "failed"
        /\ locks[wr[w].directory]
        /\ InCriticalSection(wr[w].directory) # {}

\* C13: at no time are two appendFact calls on the same directory both inside the
\* critical section.
C13_LockExclusive ==
    \A d \in Dirs : Cardinality(InCriticalSection(d)) <= 1

\* The calls that are in progress on a directory.
InProgress(d) ==
    { w \in DOMAIN wr :
        wr[w].directory = d /\ wr[w].pc \notin {"idle", "done", "failed", "threw"} }

ValidKinds == {"A", "B", "C", "padded"}

FactOfKind(kind) ==
    CASE kind = "A"      -> MkFact("A", <<>>)
      [] kind = "B"      -> MkFact("B", <<"A">>)
      [] kind = "C"      -> MkFact("C", <<>>)
      [] kind = "padded" -> MkFact("B", <<>>)
      [] OTHER           -> NoFact

\* The facts of the valid lines, in file order.
RECURSIVE ValidFacts(_)
ValidFacts(kinds) ==
    IF kinds = <<>> THEN <<>>
    ELSE IF Head(kinds) \in ValidKinds
         THEN <<FactOfKind(Head(kinds))>> \o ValidFacts(Tail(kinds))
         ELSE ValidFacts(Tail(kinds))

LogOfA == fs[FactsFileOf(<<"a">>)]

WhitespaceOnly == \A i \in 1..Len(out.kinds) : out.kinds[i] \in {"empty", "blanks"}

IsFact(x) == x.id \in Ids /\ x = MkFact(x.id, x.related_facts)

\* C15: loadKnowledge never raises; it returns the empty sequence when the
\* log file is absent, is empty or whitespace-only, or cannot be read, and
\* otherwise a sequence of facts.
C15_LoadNeverRaises ==
    out.op = "loadKnowledge" =>
        /\ ~out.result.raised
        /\ ( \/ out.directory # <<"a">>
             \/ ~LogOfA.exists
             \/ WhitespaceOnly
             \/ ~out.readOk ) => out.result.facts = <<>>
        /\ \A i \in 1..Len(out.result.facts) : IsFact(out.result.facts[i])

C15_Witness ==
    /\ out.op = "loadKnowledge"
    /\ out.directory = <<"a">>
    /\ ~out.readOk
    /\ LogOfA.exists
    /\ \E i \in 1..Len(out.kinds) : out.kinds[i] = "A"
    /\ out.result = Returns(<<>>)

\* C16: for a log whose lines are any mix of valid fact lines, blank lines
\* and malformed lines, loadKnowledge returns exactly the facts of the valid
\* lines, in file order, and raises no error; a malformed line costs no
\* valid line before or after it.
C16_ValidLinesLoaded ==
    ( /\ out.op = "loadKnowledge"
      /\ out.directory = <<"a">>
      /\ out.readOk
      /\ LogOfA.exists ) => out.result = Returns(ValidFacts(out.kinds))

C16_Witness ==
    /\ out.op = "loadKnowledge"
    /\ out.directory = <<"a">>
    /\ out.readOk
    /\ out.kinds = <<"A", "junk", "C">>
    /\ out.result.facts = <<MkFact("A", <<>>), MkFact("C", <<>>)>>

\* Two characters that are the same up to case.
SameLetter(a, b) ==
    \/ a = b
    \/ \E i \in 1..Len(UpperCase) : {a, b} = {UpperCase[i], LowerCase[i]}

\* keyword occurs in text, case aside.
OccursIn(keyword, text) ==
    \E off \in 0..(Len(text) - Len(keyword)) :
        \A i \in 1..Len(keyword) : SameLetter(text[off + i], keyword[i])

Relevant(fact, keywords) ==
    \E i \in 1..Len(keywords) :
        \/ OccursIn(Spell(keywords[i]), Spell(fact.subject))
        \/ OccursIn(Spell(keywords[i]), Spell(fact.fact))
        \/ \E j \in 1..Len(fact.keywords) :
              OccursIn(Spell(keywords[i]), Spell(fact.keywords[j]))

\* What loadKnowledge yields for the parent directory of the call's filePath.
FactsOfParent ==
    IF Dirname(out.filePath) = <<"a">> /\ LogOfA.exists /\ out.readOk
    THEN ValidFacts(out.kinds)
    ELSE <<>>

\* C17: loadRelevantKnowledge(filePath, keywords) returns, in log order, all
\* facts of the parent directory of filePath when keywords is empty, and
\* otherwise exactly those facts for which some keyword, compared
\* case-insensitively, is a substring of the fact's subject, of its content,
\* or of one of the fact's own keywords.
C17_RelevantFactsReturned ==
    out.op = "loadRelevantKnowledge" =>
        out.result =
            Returns(IF out.keywords = <<>> THEN FactsOfParent
                    ELSE SelectSeq(FactsOfParent, LAMBDA f : Relevant(f, out.keywords)))

C17_Witness ==
    /\ out.op = "loadRelevantKnowledge"
    /\ out.keywords = <<"zz", "FLOW">>
    /\ out.kinds = <<"B", "A", "C">>
    /\ out.result.facts = <<MkFact("A", <<>>), MkFact("C", <<>>)>>

(***************************************************************************)
(* The search index and the rebuilt graph.                                 *)
(***************************************************************************)
\* The directories whose log discovery finds.
DiscoveredDirs(files) ==
    { d \in Dirs : files[FactsFileOf(d)].exists /\ GlobMatches(FactsFileOf(d)) }

Listed(file, keyword, location) ==
    /\ file.exists
    /\ keyword \in DOMAIN file.keywords
    /\ Includes(file.keywords[keyword], location)

NoLocationTwice(file) ==
    \A k \in DOMAIN file.keywords :
        \A i, j \in 1..Len(file.keywords[k]) :
            file.keywords[k][i] = file.keywords[k][j] => i = j

\* C18: after buildSearchIndex(projectRoot) returns, for every fact f in every
\* discovered log and every keyword k of f, the location '<relative log
\* path>:<f.id>' is in the persisted index's list for k, and no keyword's list
\* holds the same location twice.
C18_EveryFactIndexed ==
    [][\A knowledgeFiles \in FindAllKnowledgeFiles(fs) :
         BuildSearchIndex(knowledgeFiles) =>
            /\ \A d \in DiscoveredDirs(fs) :
                 \A f \in Range(LoadKnowledge(fs, d)) :
                   \A k \in Range(f.keywords) :
                     Listed(indexFile', k, Location(FactsFileOf(d), f.id))
            /\ NoLocationTwice(indexFile')]_vars

\* The (keyword, location) pairs of the persisted index.
Pairs(file) ==
    IF file.exists
    THEN UNION { { <<k, loc>> : loc \in Range(file.keywords[k]) } :
                   k \in DOMAIN file.keywords }
    ELSE {}

\* C19: buildSearchIndex is monotonic: every (keyword, location) pair of the
\* persisted search index before a call is still there after it, in any
\* sequence of calls, even when the fact it refers to is no longer in any log.
C19_IndexMonotonic == [][Pairs(indexFile) \subseteq Pairs(indexFile')]_vars

\* The last of the deletions and rebuilds was a rebuild, and the index it
\* wrote lists a fact that no log holds.
C19_Witness ==
    /\ out.op = "buildSearchIndex"
    /\ out.result = indexFile.keywords
    /\ \E p \in Pairs(indexFile) :
          /\ p[2][Len(p[2])] = "B"
          /\ \A X \in StoredIn(fs) : X.id # "B"
    /\ \E p \in Pairs(indexFile) :
          /\ p[2][Len(p[2])] = "A"
          /\ \E X \in StoredIn(fs) : X.id = "A"

\* C20: buildGraph leaves the edge sequence exactly as it was in the persisted
\* graph (same edges, same order) and only changes nodes, to the union of the
\* previous nodes and every fact id found in any log.
C20_BuildGraphKeepsEdgesAddsNodes ==
    [][\A knowledgeFiles \in FindAllKnowledgeFiles(fs) :
         BuildGraph(knowledgeFiles) =>
            /\ graphFile'.exists
            /\ graphFile'.edges = ReadGraph(graphFile).edges
            /\ Range(graphFile'.nodes) =
                  Range(ReadGraph(graphFile).nodes) \cup { f.id : f \in DiscoveredIn(fs) }]_vars

\* The edges alone: what buildGraph writes has the edges it read.
BuildGraphKeepsEdges ==
    [][\A knowledgeFiles \in FindAllKnowledgeFiles(fs) :
         BuildGraph(knowledgeFiles) => graphFile'.edges = ReadGraph(graphFile).edges]_vars

(***************************************************************************)
(* rebuildAllIndexes and the two files as caches, under SpecRebuild.       *)
(***************************************************************************)
\* C21: rebuildAllIndexes is idempotent: called twice in succession with no
\* change to any fact log in between, it leaves graph.json (nodes and edges)
\* and search-index.json after the second call as they were after the first.
C21_RebuildIdempotent ==
    [][(out.op = "rebuildAllIndexes" /\ out'.op = "rebuildAllIndexes")
          => (graphFile' = graphFile /\ indexFile' = indexFile /\ fs' = fs)]_vars

C21_Witness ==
    /\ out.op = "rebuildAllIndexes"
    /\ out.times = 2
    /\ graphFile.nodes # <<>>
    /\ graphFile.edges # <<>>
    /\ Pairs(indexFile) # {}

\* C22: the graph and the search index are caches rebuildable from the fact
\* logs alone: in any state reached by appendFact, linkFact and
\* rebuildAllIndexes calls, deleting graph.json and search-index.json and
\* running rebuildAllIndexes yields a graph (nodes and edges) and a search
\* index equal to the ones that existed before the deletion.
C22_CachesRebuildable ==
    (graphFile.exists /\ indexFile.exists) =>
        \A ki \in FindAllKnowledgeFiles(fs), kg \in FindAllKnowledgeFiles(fs) :
            LET graph == BuiltGraph(NoGraphFile, fs, kg)
                index == WriteIndex(BuiltIndex(NoIndexFile, fs, ki))
            IN /\ Range(graph.nodes) = Range(graphFile.nodes)
               /\ Range(graph.edges) = Range(graphFile.edges)
               /\ Pairs(index) = Pairs(indexFile)

(***************************************************************************)
(* The graph file missing or damaged, under SpecGraph.                     *)
(***************************************************************************)
\* C23: when the persisted graph is missing or cannot be parsed, linkFact and
\* buildGraph do not fail: they proceed from the empty graph and overwrite the
\* file with the newly computed graph.  What linkFact then writes has the new
\* fact as its only node and only edges of that fact; what buildGraph writes
\* has no edge and only ids of stored facts as nodes.
C23_StartsFromEmptyGraph ==
    (out.op \in {"linkFact", "buildGraph"} /\ out.found \in {"absent", "broken"}) =>
        /\ graphFile.exists
        /\ graphFile.parses
        /\ out.op = "linkFact" =>
              /\ graphFile.nodes = <<linked.id>>
              /\ \A e \in Edges(graphFile) :
                    \/ e.from = linked.id /\ Includes(linked.related_facts, e.to)
                    \/ e.to = linked.id /\ Includes(linked.related_facts, e.from)
        /\ out.op = "buildGraph" =>
              /\ graphFile.edges = <<>>
              /\ Range(graphFile.nodes) \subseteq { X.id : X \in StoredIn(fs) }

C23_Witness ==
    /\ out.op = "linkFact"
    /\ out.found = "broken"
    /\ graphFile.exists
    /\ graphFile.parses
    /\ graphFile.nodes = <<linked.id>>
    /\ graphFile.edges # <<>>

\* C24: linkFact never relates a fact to itself: after any sequence of
\* linkFact calls, graph.json has no edge whose from equals its to, and no
\* stored fact's related_facts contains that fact's own id, even when newFact
\* is already in a log when linkFact(newFact) runs.
C24_NoSelfRelation ==
    /\ \A e \in Edges(graphFile) : e.from # e.to
    /\ \A X \in StoredIn(fs) : ~Includes(X.related_facts, X.id)
    /\ ~Includes(linked.related_facts, linked.id)

\* The last call was linkFact(newFact), newFact was in the log the call loaded,
\* and the call related it to another fact.
C24_Witness ==
    /\ out.op = "linkFact"
    /\ \E X \in Range(AllFacts(fs, <<FactsFileOf(<<"a">>)>>)) : X.id = linked.id
    /\ \E e \in Edges(graphFile) : e.from = linked.id
    /\ linked.related_facts # <<>>

(***************************************************************************)
(* The cap on a pair, under Spec.                                          *)
(***************************************************************************)
\* The facts a linkFact call scans.
ScannedFacts(files, knowledgeFiles) == Range(AllFacts(files, knowledgeFiles))

\* The ids of the scanned facts, other than newFact's, whose every scanned
\* record has MAX_RELATED_FACTS related_facts.
IdsAtCap(newFact, files, knowledgeFiles) ==
    { X.id : X \in { Y \in ScannedFacts(files, knowledgeFiles) :
                       /\ Y.id # newFact.id
                       /\ \A Z \in ScannedFacts(files, knowledgeFiles) :
                             Z.id = Y.id => Len(Z.related_facts) >= MAX_RELATED_FACTS } }

Between(e, x, y) == {e.from, e.to} = {x, y}

RecordsOf(files, id) == { X \in StoredIn(files) : X.id = id }

\* C25: a candidate pair is skipped entirely when either side is at the cap:
\* if an existing fact B has 5 related_facts when linkFact(A) scans it, or A
\* itself entered the call with 5 related_facts, then the call stages no edge
\* between A and B and leaves B's stored record unchanged, whatever their
\* keyword or citation overlap.  With A at the cap the call stages no edge and
\* writes no log; with B at the cap no record of B is added or changed and
\* the scanned ones stay.
C25_PairAtCapSkipped ==
    [][\A newFact \in LinkInputs, knowledgeFiles \in FindAllKnowledgeFiles(fs) :
         LinkFact(newFact, knowledgeFiles) =>
            LET staged == Range(Detect(newFact, AllFacts(fs, knowledgeFiles)).newEdges) IN
            /\ Len(newFact.related_facts) >= MAX_RELATED_FACTS =>
                  /\ staged = {}
                  /\ Edges(graphFile') \subseteq Edges(graphFile)
                  /\ fs' = fs
            /\ \A b \in IdsAtCap(newFact, fs, knowledgeFiles) :
                  /\ \A e \in staged : ~Between(e, newFact.id, b)
                  /\ \A e \in Edges(graphFile') \ Edges(graphFile) :
                        ~Between(e, newFact.id, b)
                  /\ RecordsOf(fs', b) \subseteq RecordsOf(fs, b)
                  /\ \A X \in ScannedFacts(fs, knowledgeFiles) :
                        X.id = b => X \in StoredIn(fs')]_vars

\* The last call was linkFact(A); it scanned B with 5 related_facts and C,
\* related A to C and staged nothing between A and B, whose keywords overlap.
C25_Witness ==
    /\ out.op = "linkFact"
    /\ linked.id = "A"
    /\ MkFact("B", Repeat("A", 5)) \in ScannedFacts(fs, <<FactsFileOf(<<"a">>)>>)
    /\ Cardinality(SharedKeywords(MkFact("A", <<>>), MkFact("B", <<>>))) >= 2
    /\ Includes(linked.related_facts, "C")
    /\ \A e \in Edges(graphFile) : ~Between(e, "A", "B")
    /\ \E e \in Edges(graphFile) : Between(e, "A", "C")

(***************************************************************************)
(* More candidates than the cap, under SpecCap.                            *)
(***************************************************************************)
\* A scanned fact the call may relate to newFact: another fact, neither side
\* at the cap, two shared keywords or a shared citation file.
Eligible(newFact, X) ==
    /\ X.id # newFact.id
    /\ Len(X.related_facts) < MAX_RELATED_FACTS
    /\ Len(newFact.related_facts) < MAX_RELATED_FACTS
    /\ \/ Cardinality(SharedKeywords(newFact, X)) >= 2
       \/ SharedFiles(newFact, X) # {}

EligibleAt(newFact, allFacts) ==
    { i \in 1..Len(allFacts) : Eligible(newFact, allFacts[i]) }

\* The first MAX_RELATED_FACTS eligible positions, in discovery order.
FirstEligible(newFact, allFacts) ==
    LET E == EligibleAt(newFact, allFacts) IN
    { i \in E : Cardinality({ j \in E : j < i }) < MAX_RELATED_FACTS }

\* Their ids, in that order.
FirstEligibleIds(newFact, allFacts) ==
    LET at == SelectSeq([i \in 1..Len(allFacts) |-> i],
                        LAMBDA i : i \in FirstEligible(newFact, allFacts))
    IN [n \in 1..Len(at) |-> allFacts[at[n]].id]

\* C26: a single linkFact call declares at most 5 existing facts related (so
\* stages at most 10 edges and rewrites at most 5 logs), and when more than 5
\* candidates satisfy the relation rule, the ones linked are exactly the first
\* 5 matching candidates in discovery order (log discovery order, then
\* per-log line order).
C26_FirstFiveLinked ==
    [][\A newFact \in CapLinkInputs, knowledgeFiles \in FindAllKnowledgeFiles(fs) :
         (out'.newFact = newFact /\ out'.knowledgeFiles = knowledgeFiles) =>
            LET allFacts == AllFacts(fs, knowledgeFiles)
                ids      == FirstEligibleIds(newFact, allFacts)
                staged   == Detect(newFact, allFacts)
            IN /\ Len(ids) <= MAX_RELATED_FACTS
               /\ staged.relatedFactIds = ids
               /\ Len(staged.newEdges) <= 2 * MAX_RELATED_FACTS
               /\ Edges(graphFile') =
                     Edges(ReadGraph(graphFile))
                        \cup UNION { {Edge(newFact.id, id), Edge(id, newFact.id)} :
                                       id \in Range(ids) }
               /\ linked'.related_facts =
                     Slice(newFact.related_facts \o ids, MAX_RELATED_FACTS)
               /\ Cardinality({ p \in DOMAIN fs : fs'[p] # fs[p] }) <= MAX_RELATED_FACTS]_vars

\* The call found b's log before a's; the logs it loaded hold six candidates
\* it may relate to A, the first of them in b; five were related, the sixth not.
C26_Witness ==
    /\ out.op = "linkFact"
    /\ out.knowledgeFiles = <<FactsFileOf(<<"b">>), FactsFileOf(<<"a">>)>>
    /\ linked = MkFact("A", <<"D3", "D4", "D5", "D6", "D1">>)
    /\ LET allFacts == AllFacts(fs, out.knowledgeFiles) IN
       /\ Cardinality(EligibleAt(MkFact("A", <<>>), allFacts)) = 6
       /\ allFacts[6].id = "D2"
    /\ Edge("A", "D1") \in Edges(graphFile)
    /\ \A e \in Edges(graphFile) : ~Between(e, "A", "D2")

(***************************************************************************)
(* The keyword rule, under Spec.                                           *)
(***************************************************************************)
\* C27: the keyword rule of linkFact fires only when the two facts share at
\* least 2 keywords as sets, compared case-sensitively: a scanned fact that
\* shares no citation file with newFact and that the call declares related
\* has at least 2 distinct keywords in common with it.
C27_KeywordRuleOnSets ==
    [][\A newFact \in LinkInputs, knowledgeFiles \in FindAllKnowledgeFiles(fs) :
         LinkFact(newFact, knowledgeFiles) =>
            \A X \in ScannedFacts(fs, knowledgeFiles) :
               ( /\ X.id # newFact.id
                 /\ SharedFiles(newFact, X) = {}
                 /\ Includes(Detect(newFact, AllFacts(fs, knowledgeFiles)).relatedFactIds,
                             X.id) )
               => Cardinality(SharedKeywords(newFact, X)) >= 2]_vars

\* C28: every linkFact(newFact) call that returns normally has persisted a
\* graph whose nodes include newFact.id, even when no existing fact was
\* declared related and no edge was added.
C28_NewFactIsNode ==
    out.op = "linkFact" =>
        /\ graphFile.exists
        /\ graphFile.parses
        /\ Includes(graphFile.nodes, linked.id)

\* The last call was linkFact on an absent graph file; it related nothing, and
\* the graph it wrote has the new fact as a node and no edge.
C28_Witness ==
    /\ out.op = "linkFact"
    /\ out.found = "absent"
    /\ linked.related_facts = <<>>
    /\ graphFile.exists
    /\ graphFile.edges = <<>>
    /\ graphFile.nodes = <<linked.id>>

(***************************************************************************)
(* The write-back's frame, under Spec.                                     *)
(***************************************************************************)
\* The facts of the log file at path.
FactsAt(files, path) == LoadKnowledge(files, Dirname(Dirname(path)))

SameButRelated(X, Y) == [X EXCEPT !.related_facts = <<>>] = [Y EXCEPT !.related_facts = <<>>]

\* C29: the write-back of linkFact(newFact) rewrites only logs that contain a
\* fact declared related in that call and only if newFact.id was actually
\* added to some fact there; every other log is left untouched, and in a
\* rewritten log the sequence of facts and all fields other than
\* related_facts of the related facts are the same as before the call.
C29_WriteBackFrame ==
    [][\A newFact \in LinkInputs, knowledgeFiles \in FindAllKnowledgeFiles(fs) :
         LinkFact(newFact, knowledgeFiles) =>
            LET relatedFactIds == Detect(newFact, AllFacts(fs, knowledgeFiles)).relatedFactIds IN
            \A p \in DOMAIN fs :
               fs'[p] # fs[p] =>
                  LET before == FactsAt(fs, p)
                      after  == FactsAt(fs', p)
                  IN /\ Len(after) = Len(before)
                     /\ \A i \in 1..Len(before) :
                           /\ SameButRelated(after[i], before[i])
                           /\ after[i] # before[i] =>
                                 /\ Includes(relatedFactIds, before[i].id)
                                 /\ Includes(after[i].related_facts, newFact.id)
                     /\ \E i \in 1..Len(before) :
                           /\ Includes(relatedFactIds, before[i].id)
                           /\ ~Includes(before[i].related_facts, newFact.id)
                           /\ Includes(after[i].related_facts, newFact.id)]_vars

(***************************************************************************)
(* The order of linkFact's writes, under SpecLink.                         *)
(***************************************************************************)
\* graph.json holds what linker l's call adds: its node and both edges to
\* every fact it declared related.
GraphHasCallOf(l) ==
    /\ graphFile.exists
    /\ Includes(graphFile.nodes, lk[l].newFact.id)
    /\ \A id \in Range(lk[l].relatedFactIds) :
          /\ Edge(lk[l].newFact.id, id) \in Edges(graphFile)
          /\ Edge(id, lk[l].newFact.id) \in Edges(graphFile)

\* C30: within one linkFact invocation the graph file is written before any
\* fact log is rewritten: every write to a facts.jsonl of the invocation comes
\* after its write of graph.json, no log is written before it, and a failure
\* during write-back leaves a graph that already contains the new edges.
C30_GraphWrittenBeforeLogs ==
    /\ [][\A l \in DOMAIN lk :
            /\ (lk[l].pc = "rewrite" /\ lk'[l] # lk[l]) => GraphHasCallOf(l)
            /\ (lk[l].pc \in {"read_graph", "find", "load", "write_graph"}
                  /\ lk'[l] # lk[l]) => fs' = fs]_vars
    /\ [](\A l \in DOMAIN lk : lk[l].pc = "threw" => GraphHasCallOf(l))

\* The rewrite of a log failed; the graph has the call's edges and the log is
\* as it was.
C30_Witness ==
    /\ lk["l1"].pc = "threw"
    /\ lk["l1"].relatedFactIds # <<>>
    /\ GraphHasCallOf("l1")
    /\ graphFile.edges # <<>>
    /\ LoadKnowledge(fs, <<"a">>) = <<MkFact("C", <<>>)>>

(***************************************************************************)
(* linkFact calls that interleave, under SpecRace.                         *)
(***************************************************************************)
\* Linker l's call has returned having declared id related.
ReturnedRelated(l, id) == lk[l].pc = "done" /\ Includes(lk[l].newFact.related_facts, id)

\* The record of id in the discovered log.
StoredRecord(id) ==
    LET facts == FactsAt(fs, FactsFileOf(<<"a">>))
    IN facts[CHOOSE i \in DOMAIN facts : facts[i].id = id]

\* C31: two interleaved linkFact calls can lose an update, the last whole-file
\* writer winning: a call's write of graph.json leaves exactly the graph that
\* call read and staged, whatever was written since its read, and what it
\* drops are edges of the other call, which has already written; a call's
\* rewrite of a log leaves exactly the lines that call serialized.
C31_LastWriterWins ==
    [][\A l \in DOMAIN lk :
          /\ (lk[l].pc = "write_graph" /\ lk'[l] # lk[l]) =>
                /\ graphFile'.nodes = lk[l].graph.nodes
                /\ graphFile'.edges = lk[l].graph.edges
                /\ \A e \in Edges(graphFile) \ Edges(graphFile') :
                      \E o \in DOMAIN lk \ {l} :
                          /\ lk[o].pc \in {"scan", "reload", "rewrite", "done"}
                          /\ lk[o].newFact.id \in {e.from, e.to}
          /\ (lk[l].pc = "rewrite" /\ lk'[l] # lk[l]) =>
                fs'[lk[l].entries[lk[l].i].file].content = lk[l].lines]_vars

\* Both calls have returned, for different new facts that both declared B
\* related; graph.json has the edges of one call and lacks those of the other,
\* and B's stored related_facts lacks one of the two new ids.
C31_Witness ==
    /\ ReturnedRelated("l1", "B") /\ ReturnedRelated("l2", "B")
    /\ lk["l1"].newFact.id # lk["l2"].newFact.id
    /\ HasBothEdges(graphFile, lk["l2"].newFact.id, "B")
    /\ ~HasBothEdges(graphFile, lk["l1"].newFact.id, "B")
    /\ \E l \in RaceLinkers : ~Includes(StoredRecord("B").related_facts, lk[l].newFact.id)

(***************************************************************************)
(* The lock wait of appendFact, under SpecWait.                            *)
(***************************************************************************)
\* Writer w is inside acquireLock.
Acquiring(w) == wr[w].pc \in {"lock_check", "lock_write", "sleep"}

\* C32: the lock wait of appendFact always terminates: as time advances, every
\* acquireLock call comes to return a lock handle or to throw the timeout
\* error, even if the sentinel is never removed; it throws only once the
\* timeout has passed and the sentinel is there, and a call whose timeout has
\* passed does not go back to sleep.
C32_LockWaitTerminates ==
    /\ \A w \in 1..MaxWriters : Acquiring(w) ~> ~Acquiring(w)
    /\ [][\A w \in 1..MaxWriters :
            /\ (wr[w].pc # "failed" /\ wr'[w].pc = "failed") =>
                  /\ wr[w].pc = "lock_check"
                  /\ wr[w].expired
                  /\ locks[wr[w].directory]
            /\ (wr[w].pc = "lock_check" /\ wr[w].expired) => wr'[w].pc # "sleep"]_vars

\* Every call has thrown the timeout error on a sentinel that is still there
\* and that no call wrote.
C32_Witness ==
    /\ \A w \in 1..MaxWriters : wr[w].pc = "failed"
    /\ locks[<<"a">>]
    /\ fs = NoFiles

(***************************************************************************)
(* Graph and logs after linkFact calls that run one at a time (Spec).      *)
(***************************************************************************)
\* C33: when linkFact calls run one at a time, graph and logs agree after each
\* call linkFact(N): for every existing fact E declared related in the call,
\* both edges N->E and E->N are in graph.json and N's id is in E's stored
\* related_facts; and a stored fact E lists N only if graph.json has the edge
\* E->N.
C33_GraphAndLogsAgree ==
    [][\A newFact \in LinkInputs, knowledgeFiles \in FindAllKnowledgeFiles(fs) :
         LinkFact(newFact, knowledgeFiles) =>
            LET relatedFactIds == Detect(newFact, AllFacts(fs, knowledgeFiles)).relatedFactIds IN
            \A E \in StoredIn(fs') :
               /\ Includes(relatedFactIds, E.id) =>
                     /\ HasBothEdges(graphFile', newFact.id, E.id)
                     /\ Includes(E.related_facts, newFact.id)
               /\ (Includes(E.related_facts, newFact.id) /\ E \notin StoredIn(fs)) =>
                     Edge(E.id, newFact.id) \in Edges(graphFile')]_vars

\* C34: after any sequence of linkFact calls starting from an empty graph,
\* every edge of graph.json has both its from id and its to id in graph.nodes
\* (SpecLink: linkFact is the only operation, the graph file starts absent).
C34_EdgesBetweenNodes ==
    (\A l \in DOMAIN lk : lk[l].pc \in {"idle", "done"}) =>
        \A e \in Edges(graphFile) :
            /\ Includes(graphFile.nodes, e.from)
            /\ Includes(graphFile.nodes, e.to)

(***************************************************************************)
(* The cap and the graph, under SpecOnce.                                  *)
(***************************************************************************)
\* The ids that id has an outgoing edge to.
OutNeighbours(file, id) == { e.to : e \in { d \in Edges(file) : d.from = id } }

\* C35: the relation cap also bounds the graph: when every fact is appended to
\* a log and then passed once to linkFact, in any serial order, no fact id has
\* more than MAX_RELATED_FACTS outgoing edges in graph.json.
C35_OutDegreeCapped ==
    \A id \in { f.id : f \in OnceFacts } :
        Cardinality(OutNeighbours(graphFile, id)) <= MAX_RELATED_FACTS

(***************************************************************************)
(* The knowledge extractor hook, under SpecExtract.                        *)
(***************************************************************************)
\* The invocations of extractKnowledge for a session that went past the guard
\* and have not returned.
PastGuard(sessionID) ==
    { e \in DOMAIN ex : /\ ex[e].session = sessionID
                        /\ ex[e].passed
                        /\ ex[e].pc \in InTry \cup {"cleanup"} }

\* C36: knowledge extraction is single-flight per session: at most one
\* extractKnowledge invocation of a session is past the in-progress guard at
\* any time, under any interleaving of sc-extract calls and timer firings; a
\* call that arrives while one is in progress returns the zero result and does
\* not clear the running call's flag.
C36_SingleFlight ==
    /\ [](\A s \in Sessions : Cardinality(PastGuard(s)) <= 1)
    /\ [][\A s \in Sessions :
            (Len(ex') = Len(ex) + 1 /\ ex'[Len(ex')].session = s /\ PastGuard(s) # {}) =>
                /\ ~ex'[Len(ex')].passed
                /\ ex'[Len(ex')].result = ZeroResult
                /\ sessionExtractionInProgress'[s] = sessionExtractionInProgress[s]]_vars

\* Invocation e, which went past the guard, is inside its try block.
Extracting(e) == e \in DOMAIN ex /\ ex[e].passed /\ ex[e].pc \in InTry

\* C37: the in-progress flag of a session is always cleared when the
\* extractKnowledge invocation that set it finishes, on every exit path: the
\* flag is set only while the invocation that set it is inside its try block,
\* every step that takes an invocation out of the try block leaves the flag
\* cleared, and, the awaits settling, a set flag always comes to be cleared,
\* so that a later call is not blocked forever.
C37_FlagCleared ==
    /\ [](\A s \in Sessions :
            sessionExtractionInProgress[s] =>
                \E e \in DOMAIN ex : ex[e].session = s /\ Extracting(e))
    /\ [][\A e \in DOMAIN ex' :
            ( /\ ex'[e].passed
              /\ ex'[e].pc \notin InTry
              /\ e \in DOMAIN ex => Extracting(e) )
            => ~sessionExtractionInProgress'[ex'[e].session]]_vars
    /\ \A s \in Sessions :
          sessionExtractionInProgress[s] ~> ~sessionExtractionInProgress[s]

\* An invocation left its try block on an error path after creating its
\* extraction session and has returned the zero result; a later invocation of
\* the session went past the guard and is extracting.
C37_Witness ==
    \E e1, e2 \in DOMAIN ex :
        /\ e1 < e2
        /\ ex[e1].session = ex[e2].session
        /\ ex[e1].passed /\ ex[e1].pc = "done" /\ ex[e1].result = ZeroResult
        /\ ex[e1].extractionSessionID
        /\ Extracting(e2)
        /\ sessionExtractionInProgress[ex[e2].session]

\* The timers of a session that the runtime has still to run.
PendingTimers(sessionID) ==
    { t \in DOMAIN timers : timers[t].session = sessionID /\ timers[t].state = "pending" }

\* The timer that the most recent session.idle event of a session set.
LatestTimer(sessionID) ==
    LET mine == { t \in DOMAIN timers : timers[t].session = sessionID }
    IN CHOOSE t \in mine : \A u \in mine : u <= t

\* Timer t's callback starts in this step.
Fires(t) == t \in DOMAIN timers /\ timers[t].state = "pending" /\ timers'[t].state = "fired"

\* C38: idle-triggered extraction is debounced per session: at any time at most
\* one debounce timer is pending for a session, each session.idle event cancels
\* the pending timer and schedules a new one, and an idle-triggered extraction
\* starts only when debounceMs have passed since the most recent session.idle
\* event of that session.
C38_Debounced ==
    /\ [](\A s \in Sessions : Cardinality(PendingTimers(s)) <= 1)
    /\ [][\A s \in Sessions :
            SessionIdle(s) => PendingTimers(s)' = {Len(timers')}]_vars
    /\ [][\A t \in 1..MaxTimers :
            Fires(t) => /\ t = LatestTimer(timers[t].session)
                        /\ timers[t].left = 0]_vars

\* C39: after a session.deleted event for a session no debounce timer of that
\* session remains pending and its tracked modified-file set is removed, so no
\* idle-triggered extraction starts for it afterwards unless a new
\* session.idle event arrives: a timer that runs is the one the Map holds for
\* its session.
C39_DeletedSessionQuiet ==
    /\ [][\A s \in Sessions :
            SessionDeleted(s) => /\ PendingTimers(s)' = {}
                                 /\ ~sessionModifiedFiles'[s].present]_vars
    /\ [][\A t \in 1..MaxTimers :
            Fires(t) => sessionDebounceTimers[timers[t].session] = t]_vars

(***************************************************************************)
(* The context injector hook, under SpecInject.                            *)
(***************************************************************************)
\* Read r gets a knowledge section added to its output in this step.
Injects(r) == r \in DOMAIN reads /\ reads'[r].output # reads[r].output

\* C40: the context injector injects knowledge for a file path at most once
\* per session: once a Read of a file in a session has been processed, with
\* knowledge injected or with no facts found (the session's cache holds the
\* path), no later or concurrent Read of the same file in that session gets a
\* knowledge section added to its output, until session.deleted removes the
\* session's cache.
C40_InjectedOnce ==
    [][\A r \in 1..MaxReads :
          Injects(r) => reads[r].filePath \notin sessionCaches[reads[r].session].files]_vars

====
